---- MODULE Spec2Model ----
(***************************************************************************)
(* Olympiac front end: the error-tolerant recursive-descent parser         *)
(* (analizador_sintactico.py), the scoped symbol table (symbol_table.py)   *)
(* and the semantic verifier (verificador.py).                             *)
(*                                                                         *)
(* The specifications share    the variables of this module:               *)
(*   Spec       the parser run on a token stream (parse_from_tokens)       *)
(*   SpecSync   Parser.synchronize, one loop iteration per step            *)
(*   SpecTable  SymbolTable under arbitrary sequences of its operations    *)
(*   SpecVerif  the parser, then Verifier.run on the tree (verificador.py) *)
(*   SpecBinaryOp  Verifier._visit_binaryop on operands of every type      *)
(***************************************************************************)
EXTENDS Integers, Sequences, FiniteSets, TLC

VARIABLES
    tokens,     \* Parser.tokens: the token stream, frozen before the parse
    pos,        \* Parser.pos: the cursor, 0-based
    errors,     \* Parser.errors: the syntax diagnostics, in order
    error_keys, \* Parser._error_keys: the (message, line, column) triples seen
    stack,      \* the productions in progress, innermost last
    raiz,       \* the root node parse_from_tokens returned, NoNode before
    log,        \* what the last step did: reports, failed expects, lookaheads
    last,       \* the last parse_comando call that returned
    sy,         \* the activation of Parser.synchronize (SpecSync)
    scopes,     \* SymbolTable.scopes: list of dicts, index 1 = global (level 0)
    st,         \* the last SymbolTable call: its name, arguments and result
    vf          \* the Verifier: its fields, the calls of _visit pending, its trace

tableVars == <<scopes, st>>
syncVars == <<sy>>
verifVars == <<vf>>
parserRest == <<errors, error_keys, stack, raiz, log, last>>
parserVars == <<tokens, pos, errors, error_keys, stack, raiz, log, last>>
vars == <<tokens, pos, errors, error_keys, stack, raiz, log, last, sy, scopes, st, vf>>

(***************************************************************************)
(* Values.  A text of the program is a string, an integer an integer, and  *)
(* the texts are over the characters U+0000 to U+00FF.                     *)
(*                                                                         *)
(* Where the program holds "a value or None" (an optional slot), None is   *)
(* the empty tuple and a value x in the slot is the one-tuple <<x>>,       *)
(* written Algun(x); Valor reads x back.  No text and no integer is None:  *)
(* Algun("None") # None, Algun(0 - 1) # None.                              *)
(*                                                                         *)
(* The optional slots are:                                                 *)
(*   the attributes nombre, tipo, deporte, pais, paisA, paisB and linea    *)
(*     of a node, and the elements of its attributes args, estadisticas    *)
(*     and valores;                                                        *)
(*   linea and columna of a diagnostic of the parser and of a key of       *)
(*     _error_keys;                                                        *)
(*   the name a symbol is declared and looked up by (the keys of a scope,  *)
(*     SymbolEntry.name), SymbolEntry.defined_line, and the message        *)
(*     declare returns;                                                    *)
(*   SemanticError.line, the args of a builtin, and what a decoration, a   *)
(*     snapshot or the trace copies from one of the slots above.           *)
(* Every other text or integer (the fields of a token, the kind and the    *)
(* content of a node, a message, a type) is written as it is.              *)
(*                                                                         *)
(* None where an object is expected (a token, a node, a symbol entry) is   *)
(* a record no object is equal to: NoTok, NoNode, NoEntry.                 *)
(*                                                                         *)
(* An argument the code only tests for truth (tipo and texto of expect,    *)
(* contenido of asaNode) is "" when it is None or left out.                *)
(***************************************************************************)

\* None in an optional slot
None == <<>>

\* a value in an optional slot, and the value a slot that is not None holds
Algun(x) == <<x>>
Valor(x) == x[1]

(***************************************************************************)
(* str: the methods the code calls on texts, character by character        *)
(***************************************************************************)

\* s[i-1], the i-th character
Car(s, i) == SubSeq(s, i, i)

\* the characters c of U+0000..U+00FF with c.lower() != c, and c.lower()
Mayusculas == "ABCDEFGHIJKLMNOPQRSTUVWXYZÀÁÂÃÄÅÆÇÈÉÊËÌÍÎÏÐÑÒÓÔÕÖØÙÚÛÜÝÞ"
Minusculas == "abcdefghijklmnopqrstuvwxyzàáâãäåæçèéêëìíîïðñòóôõöøùúûüýþ"

\* the lower case of each upper case letter
Minuscula ==
    [c \in {Car(Mayusculas, i) : i \in 1..Len(Mayusculas)} |->
        Car(Minusculas, CHOOSE i \in 1..Len(Mayusculas) : Car(Mayusculas, i) = c)]

\* c.lower() of one character
LowerCar(c) == IF c \in DOMAIN Minuscula THEN Minuscula[c] ELSE c

\* s.startswith(prefix), s.endswith(suffix)
StartsWith(s, prefix) ==
    Len(s) >= Len(prefix) /\ SubSeq(s, 1, Len(prefix)) = prefix
EndsWith(s, suffix) ==
    Len(s) >= Len(suffix) /\ SubSeq(s, Len(s) - Len(suffix) + 1, Len(s)) = suffix

\* str(x), as an f-string formats the text or None of an optional slot
Str(x) == IF x = None THEN "None" ELSE Valor(x)

\* the characters str.strip() removes, those with c.isspace(): space, U+0009
\* to U+000D, U+001C to U+001F, U+0085, U+00A0
Blancos == {" ", "\t", "\n", "\r", "\f", "", "", "", "", "", "", " "}

RECURSIVE LStrip(_)
LStrip(s) == IF s # "" /\ Car(s, 1) \in Blancos THEN LStrip(Tail(s)) ELSE s
RECURSIVE RStrip(_)
RStrip(s) ==
    IF s # "" /\ Car(s, Len(s)) \in Blancos THEN RStrip(SubSeq(s, 1, Len(s) - 1)) ELSE s

\* s.strip()
Strip(s) == RStrip(LStrip(s))

(***************************************************************************)
(*                    explorador.py : tokens                               *)
(***************************************************************************)

\* TokenLexico(tipo_token, texto_original, numero_linea, posicion_columna)
Tok(tipo, texto, linea, columna) ==
    [tipo |-> tipo, texto |-> texto, linea |-> linea, columna |-> columna]

\* None where a token is expected (peek at end of stream, a failed expect):
\* no TokenLexico
NoTok == [token |-> FALSE]

\* tok.texto_original if tok else None
TextoDe(tok) == IF tok = NoTok THEN None ELSE Algun(tok.texto)

\* tok.numero_linea if tok else None, tok.posicion_columna if tok else None
LineaDe(tok) == IF tok = NoTok THEN None ELSE Algun(tok.linea)
ColumnaDe(tok) == IF tok = NoTok THEN None ELSE Algun(tok.columna)

\* str.lower()
RECURSIVE Lower(_)
Lower(s) == IF s = "" THEN "" ELSE LowerCar(Car(s, 1)) \o Lower(Tail(s))

(***************************************************************************)
(*               analizador_sintactico.py : Parser helpers                 *)
(***************************************************************************)

\* self.pos < len(self.tokens)
HasTok(p) == p < Len(tokens)

\* Parser.peek at cursor p
peek(p) == IF HasTok(p) THEN tokens[p + 1] ELSE NoTok

\* Parser.sync_tokens
sync_tokens ==
    {"deportista", "lista", "si", "repetir", "repetirhasta", "finrep", "finrephast",
     "endif", "sino", "narrar", "input", "finact", "fincarr", "finruti"}

\* synchronize: max_steps
max_steps == 500

\* synchronize: anchor_types
anchor_types == {"DECLARACION_ENTIDAD", "ESTRUCTURA_CONTROL_FLUJO", "PALABRA_CLAVE"}

\* synchronize: closing_symbols
closing_symbols == {"}", "]", ")"}

\* synchronize: the four break conditions of the loop body
IsAnchor(t, start_line) ==
    \/ t.tipo \in anchor_types
    \/ t.tipo = "INVOCACION_FUNCION" /\ t.linea # start_line
    \/ t.tipo = "SIMBOLO_PUNTUACION" /\ t.texto \in closing_symbols
    \/ Lower(t.texto) \in sync_tokens /\ t.linea # start_line

\* synchronize: while self.peek() and steps < max_steps
SyncLoopCond(p, steps) == HasTok(p) /\ steps < max_steps

\* the limit test written with > for >=
SyncLimitReachedStrict(steps) == steps > max_steps

\* synchronize: if steps >= max_steps
SyncLimitReached(steps) == steps >= max_steps

\* synchronize: the loop, from cursor p with steps iterations done
RECURSIVE sync_loop(_, _, _)
sync_loop(p, steps, start_line) ==
    IF SyncLoopCond(p, steps) /\ ~IsAnchor(peek(p), start_line)
    THEN sync_loop(p + 1, steps + 1, start_line)
    ELSE [pos |-> p, steps |-> steps]

\* Parser.synchronize: the cursor it leaves, called with the cursor at p
synchronize(p) ==
    IF ~HasTok(p) THEN p
    ELSE LET r == sync_loop(p, 0, peek(p).linea) IN
           IF SyncLimitReached(r.steps) THEN Len(tokens) ELSE r.pos


(***************************************************************************)
(*                          nodo.py : AST nodes                            *)
(***************************************************************************)

\* {} : no attributes, and [] : no children
NoAttrs == <<>>

\* asaNode(tipo, contenido, atributos, hijos), with contenido or "",
\* atributos or {} and hijos or [] taken
Node(tipo, contenido, atributos, hijos) ==
    [tipo |-> tipo, contenido |-> contenido, atributos |-> atributos, hijos |-> hijos]

\* x or "" for what an optional slot holds
OrVacio(x) == IF x = None THEN "" ELSE Valor(x)

\* None where a node is expected: no asaNode
NoNode ==
    [tipo |-> "", contenido |-> "", atributos |-> NoAttrs, hijos |-> <<>>, nodo |-> FALSE]

(***************************************************************************)
(*     analizador_sintactico.py : Parser, the state a production threads   *)
(***************************************************************************)

\* pos, errors, _error_keys of the Parser, and the log of the step
PS(p, errs, keys, lg) == [pos |-> p, errors |-> errs, keys |-> keys, log |-> lg]

\* a production's result: the parser state it leaves and the node it returns
R(ps, nodo) == [ps |-> ps, nodo |-> nodo]

\* {"mensaje": msg, "linea": linea, "columna": columna}
Diag(msg, tok) == [mensaje |-> msg, linea |-> LineaDe(tok), columna |-> ColumnaDe(tok)]

\* _report_error with the duplicate test left out
report_error_no_dedup(ps, msg, tok) ==
    [ps EXCEPT !.keys = @ \cup {<<msg, LineaDe(tok), ColumnaDe(tok)>>},
               !.errors = Append(@, Diag(msg, tok)),
               !.log = Append(@, [ev |-> "report", mensaje |-> msg, linea |-> LineaDe(tok),
                                  columna |-> ColumnaDe(tok), added |-> TRUE,
                                  a |-> Len(ps.errors), b |-> Len(ps.errors) + 1])]

\* Parser._report_error
report_error(ps, msg, tok) ==
    LET key == <<msg, LineaDe(tok), ColumnaDe(tok)>> IN
      IF key \in ps.keys
      THEN [ps EXCEPT !.log = Append(@, [ev |-> "report", mensaje |-> msg,
                                         linea |-> LineaDe(tok), columna |-> ColumnaDe(tok),
                                         added |-> FALSE,
                                         a |-> Len(ps.errors), b |-> Len(ps.errors)])]
      ELSE [ps EXCEPT !.keys = @ \cup {key},
                      !.errors = Append(@, Diag(msg, tok)),
                      !.log = Append(@, [ev |-> "report", mensaje |-> msg,
                                         linea |-> LineaDe(tok), columna |-> ColumnaDe(tok),
                                         added |-> TRUE,
                                         a |-> Len(ps.errors), b |-> Len(ps.errors) + 1])]

\* Parser.advance: the state it leaves
adv(ps) == IF HasTok(ps.pos) THEN [ps EXCEPT !.pos = @ + 1] ELSE ps

\* Parser.advance: the state and the token returned
advance(ps) == [ps |-> adv(ps), tok |-> peek(ps.pos)]

\* Parser.match_text
match_text(ps, texto) == HasTok(ps.pos) /\ Lower(peek(ps.pos).texto) = Lower(texto)

\* expect: the record of one call in the log of the step; mensaje is the
\* message reported, "" when the call reported none
ExpectEv(ps0, tipo, texto, ret, msg, ps1) ==
    [ev |-> "expect", at |-> ps0.pos, tipo |-> tipo, texto |-> texto, ret |-> ret,
     mensaje |-> msg, a |-> Len(ps0.errors), b |-> Len(ps1.errors)]

\* expect: the token t at the cursor (NoTok at end of stream) is the one
\* expected: not (tipo and t.tipo_token != tipo), not (texto and
\* t.texto_original.lower() != texto.lower())
expect_ok(t, tipo, texto) ==
    /\ t # NoTok
    /\ tipo = "" \/ t.tipo = tipo
    /\ texto = "" \/ Lower(t.texto) = Lower(texto)

\* expect: the message reported when it is not
expect_msg(t, tipo, texto, mensaje) ==
    IF t = NoTok
    THEN mensaje \o ": fin de archivo (EOF)"
    ELSE IF tipo # "" /\ t.tipo # tipo
    THEN mensaje \o ": se esperaba tipo " \o tipo \o " y llegó " \o t.tipo
                 \o " ('" \o t.texto \o "')"
    ELSE mensaje \o ": se esperaba '" \o texto \o "' y llegó '" \o t.texto \o "'"

\* expect: after the report, which left the parser in state q: synchronize
\* unless the stream has ended, and return None
expect_none(ps, tipo, texto, msg, q) ==
    [ps |-> [q EXCEPT !.pos = IF HasTok(ps.pos) THEN synchronize(q.pos) ELSE q.pos,
                      !.log = Append(@, ExpectEv(ps, tipo, texto, NoTok, msg, q))],
     tok |-> NoTok]

\* expect: a failed expectation: report, synchronize, None
expect_fail(ps, tipo, texto, msg, tok) ==
    expect_none(ps, tipo, texto, msg, report_error(ps, msg, tok))

\* expect: return self.advance()
expect_advance(ps, tipo, texto) ==
    [ps |-> [adv(ps) EXCEPT
                !.log = Append(@, ExpectEv(ps, tipo, texto, peek(ps.pos), "", ps))],
     tok |-> peek(ps.pos)]

\* expect returning None at end of stream without a report
expect_silent_eof(ps, tipo, texto, mensaje) ==
    LET t == peek(ps.pos) IN
      IF expect_ok(t, tipo, texto) THEN expect_advance(ps, tipo, texto)
      ELSE IF t = NoTok
      THEN expect_none(ps, tipo, texto, expect_msg(t, tipo, texto, mensaje), ps)
      ELSE expect_fail(ps, tipo, texto, expect_msg(t, tipo, texto, mensaje), t)

\* Parser.expect(tipo, texto, mensaje): tipo is the name of a TipoToken;
\* tipo and texto are tested for truth only, "" is one left out or None
expect(ps, tipo, texto, mensaje) ==
    LET t == peek(ps.pos) IN
      IF expect_ok(t, tipo, texto) THEN expect_advance(ps, tipo, texto)
      ELSE expect_fail(ps, tipo, texto, expect_msg(t, tipo, texto, mensaje), t)

\* one expect call: its arguments
Exp(tipo, texto, mensaje) == [tipo |-> tipo, texto |-> texto, mensaje |-> mensaje]

\* consecutive expect calls, from state ps: the state they leave and the
\* tokens they returned, after toks
RECURSIVE expects(_, _, _)
expects_sig(e, resto, toks) == expects(e.ps, resto, Append(toks, e.tok))
expects(ps, esperados, toks) ==
    IF esperados = <<>>
    THEN [ps |-> ps, toks |-> toks]
    ELSE expects_sig(expect(ps, esperados[1].tipo, esperados[1].texto, esperados[1].mensaje),
                     Tail(esperados), toks)

\* expect's default mensaje
DefaultMsg == "Token inesperado"

\* tok.texto_original[:-1] if tok and tok.texto_original.endswith('(')
\* else (tok.texto_original if tok else dflt)
InvName(tok, dflt) ==
    IF tok = NoTok THEN dflt
    ELSE IF EndsWith(tok.texto, "(") THEN SubSeq(tok.texto, 1, Len(tok.texto) - 1)
    ELSE tok.texto

(***************************************************************************)
(* Invocations                                                             *)
(***************************************************************************)

\* parse_narrar: the argument loop
RECURSIVE narrar_args(_, _)
narrar_args(ps, args) ==
    LET p == peek(ps.pos) IN
      IF HasTok(ps.pos) /\ p.texto # ")"
      THEN IF p.tipo = "NOMBRE_IDENTIFICADOR"
           THEN narrar_args(adv(ps), Append(args, Algun(p.texto)))
           ELSE narrar_args(
                    adv(report_error(ps, "Argumento de narrar debe ser identificador (Nombre)", p)),
                    args)
      ELSE [ps |-> ps, args |-> args]

\* if self.peek() and self.peek().texto_original == ")": self.advance()
close_paren(ps) ==
    IF HasTok(ps.pos) /\ peek(ps.pos).texto = ")" THEN adv(ps) ELSE ps

\* parse_narrar: the arity check and the node
narrar_nodo(tok, args, ps) ==
    R(IF Len(args) # 1
      THEN report_error(ps, "narrar requiere exactamente 1 Nombre, se encontró "
                                \o ToString(Len(args)), tok)
      ELSE ps,
      Node("Narrar", InvName(tok, "narrar"), [args |-> args, linea |-> LineaDe(tok)], <<>>))

\* parse_narrar: after the argument loop
narrar_tras_args(tok, l) == narrar_nodo(tok, l.args, close_paren(l.ps))

\* parse_narrar: after tok = self.expect(...)
narrar_tras_expect(e) == narrar_tras_args(e.tok, narrar_args(e.ps, <<>>))

\* Parser.parse_narrar
parse_narrar(ps) ==
    narrar_tras_expect(expect(ps, "INVOCACION_FUNCION", "", DefaultMsg))

\* parse_dirigir / parse_invocacion_generica: the argument loop
RECURSIVE inv_args(_, _)
inv_args(ps, args) ==
    LET p == peek(ps.pos) IN
      IF HasTok(ps.pos) /\ p.texto # ")"
      THEN IF p.tipo = "SIMBOLO_PUNTUACION" /\ p.texto = ","
           THEN inv_args(adv(ps), args)
           ELSE inv_args(adv(ps), Append(args, Algun(p.texto)))
      ELSE [ps |-> ps, args |-> args]

\* parse_dirigir / parse_invocacion_generica: after the argument loop
invocacion_nodo(tipo, dflt, tok, l) ==
    R(close_paren(l.ps),
      Node(tipo, InvName(tok, dflt), [args |-> l.args, linea |-> LineaDe(tok)], <<>>))

\* parse_dirigir / parse_invocacion_generica: after tok = self.expect(...)
invocacion_tras_expect(tipo, dflt, e) ==
    invocacion_nodo(tipo, dflt, e.tok, inv_args(e.ps, <<>>))

\* Parser.parse_dirigir
parse_dirigir(ps) ==
    invocacion_tras_expect("Dirigir", "input",
                           expect(ps, "INVOCACION_FUNCION", "", DefaultMsg))

\* Parser.parse_invocacion_generica
parse_invocacion_generica(ps) ==
    invocacion_tras_expect("Invocacion", "invocacion",
                           expect(ps, "INVOCACION_FUNCION", "", DefaultMsg))

(***************************************************************************)
(* Expressions                                                             *)
(***************************************************************************)

RECURSIVE parse_expression(_)
RECURSIVE parse_comparison_loop(_)
RECURSIVE parse_add(_)
RECURSIVE parse_add_loop(_)
RECURSIVE parse_mul(_)
RECURSIVE parse_mul_loop(_)
RECURSIVE parse_unary(_)
RECURSIVE parse_primary(_)

\* node = asaNode("BinaryOp", op.texto_original, {}, [node, right])
BinaryOp(op, left, right) ==
    R(right.ps, Node("BinaryOp", op, NoAttrs, <<left.nodo, right.nodo>>))

\* return asaNode("UnaryOp", op.texto_original, {}, [node])
UnaryOp(op, r) == R(r.ps, Node("UnaryOp", op, NoAttrs, <<r.nodo>>))

\* parse_primary: the ")" after a parenthesised expression, if it is there
cerrar_parentesis(r) == R(close_paren(r.ps), r.nodo)

\* Parser.parse_primary
parse_primary(ps) ==
    LET p == peek(ps.pos) IN
      IF ~HasTok(ps.pos)
      THEN R(report_error(ps, "Expresión incompleta: EOF", NoTok),
             Node("PrimaryUnknown", "", [linea |-> None], <<>>))
      ELSE IF p.tipo = "NUMERO_ENTERO"
      THEN R(adv(ps), Node("Numero", p.texto, [linea |-> Algun(p.linea)], <<>>))
      ELSE IF p.tipo = "NOMBRE_IDENTIFICADOR"
      THEN R(adv(ps), Node("Nombre", p.texto, [linea |-> Algun(p.linea)], <<>>))
      ELSE IF p.tipo = "INVOCACION_FUNCION"
      THEN parse_invocacion_generica(ps)
      ELSE IF p.tipo = "SIMBOLO_PUNTUACION" /\ p.texto = "("
      THEN cerrar_parentesis(parse_expression(adv(ps)))
      ELSE R(adv(ps), Node("PrimaryUnknown", p.texto, [linea |-> Algun(p.linea)], <<>>))

\* Parser.parse_unary
parse_unary(ps) ==
    LET p == peek(ps.pos) IN
      IF HasTok(ps.pos) /\ p.tipo = "OPERADOR_ARITMETICO" /\ p.texto \in {"+", "-"}
      THEN UnaryOp(p.texto, parse_unary(adv(ps)))
      ELSE parse_primary(ps)

\* Parser.parse_mul: the while loop, r the left operand built so far
parse_mul_loop(r) ==
    LET p == peek(r.ps.pos) IN
      IF HasTok(r.ps.pos) /\ p.tipo = "OPERADOR_ARITMETICO" /\ p.texto \in {"*", "/", "%"}
      THEN parse_mul_loop(BinaryOp(p.texto, r, parse_unary(adv(r.ps))))
      ELSE r

\* Parser.parse_mul
parse_mul(ps) == parse_mul_loop(parse_unary(ps))

\* Parser.parse_add: the while loop
parse_add_loop(r) ==
    LET p == peek(r.ps.pos) IN
      IF HasTok(r.ps.pos) /\ p.tipo = "OPERADOR_ARITMETICO" /\ p.texto \in {"+", "-"}
      THEN parse_add_loop(BinaryOp(p.texto, r, parse_mul(adv(r.ps))))
      ELSE r

\* Parser.parse_add
parse_add(ps) == parse_add_loop(parse_mul(ps))

\* Parser.parse_comparison: the while loop
parse_comparison_loop(r) ==
    LET p == peek(r.ps.pos) IN
      IF HasTok(r.ps.pos) /\ p.tipo = "OPERADOR_COMPARACION"
      THEN parse_comparison_loop(BinaryOp(p.texto, r, parse_add(adv(r.ps))))
      ELSE r

\* Parser.parse_comparison
parse_comparison(ps) == parse_comparison_loop(parse_add(ps))

\* Parser.parse_expression
parse_expression(ps) == parse_comparison(ps)

\* parse_condicion_expresion: the Condicion node
Condicion(left, op, right) ==
    R(right.ps,
      Node("Condicion", left.nodo.contenido \o " " \o op \o " " \o right.nodo.contenido,
           NoAttrs, <<left.nodo, Node("Op", op, NoAttrs, <<>>), right.nodo>>))

\* parse_condicion_expresion: after left = self.parse_expression()
condicion_tras(left) ==
    IF HasTok(left.ps.pos) /\ peek(left.ps.pos).tipo = "OPERADOR_COMPARACION"
    THEN Condicion(left, peek(left.ps.pos).texto, parse_expression(adv(left.ps)))
    ELSE left

\* Parser.parse_condicion_expresion
parse_condicion_expresion(ps) == condicion_tras(parse_expression(ps))

(***************************************************************************)
(* Declarations                                                            *)
(***************************************************************************)

\* parse_deportista: after the seven expects, x what they left and returned
deportista_nodo(x) ==
    LET tok_decl == x.toks[1]
        nombre == x.toks[2]
        deporte == x.toks[6]
        pais == x.toks[7]
        atributos == [nombre |-> TextoDe(nombre),
                      estadisticas |-> <<TextoDe(x.toks[3]), TextoDe(x.toks[4]),
                                         TextoDe(x.toks[5])>>,
                      deporte |-> TextoDe(deporte), pais |-> TextoDe(pais),
                      linea |-> Algun(tok_decl.linea)]
    IN  IF tok_decl = NoTok
        THEN R(report_error(x.ps, "Declaración 'Deportista' inválida o incompleta", nombre),
               Node("ErrorSintactico", "Deportista", [linea |-> LineaDe(nombre)], <<>>))
        ELSE IF \/ nombre = NoTok \/ deporte = NoTok \/ pais = NoTok
                \/ \E i \in 3..5 : x.toks[i] = NoTok
        THEN R(report_error(x.ps, "Declaración 'Deportista' incompleta (faltan campos)",
                            tok_decl),
               Node("ErrorSintactico", "DeportistaIncompleto", atributos, <<>>))
        ELSE R(x.ps, Node("Deportista", OrVacio(atributos.nombre), atributos, <<>>))

\* Parser.parse_deportista
parse_deportista(ps) ==
    deportista_nodo(
        expects(ps, <<Exp("DECLARACION_ENTIDAD", "Deportista", DefaultMsg),
                      Exp("NOMBRE_IDENTIFICADOR", "", DefaultMsg),
                      Exp("NUMERO_ENTERO", "", DefaultMsg),
                      Exp("NUMERO_ENTERO", "", DefaultMsg),
                      Exp("NUMERO_ENTERO", "", DefaultMsg),
                      Exp("NOMBRE_IDENTIFICADOR", "", DefaultMsg),
                      Exp("NOMBRE_IDENTIFICADOR", "", DefaultMsg)>>, <<>>))

\* parse_lista_o_carga: peek is the entity keyword 'Deportista', compared
\* without lower()
IsDeportistaDeclNoLower(p) ==
    HasTok(p) /\ peek(p).tipo = "DECLARACION_ENTIDAD" /\ peek(p).texto = "deportista"

\* parse_lista_o_carga: self.peek() and self.peek().tipo_token ==
\* DECLARACION_ENTIDAD and self.peek().texto_original.lower() == "deportista"
IsDeportistaDecl(p) ==
    HasTok(p) /\ peek(p).tipo = "DECLARACION_ENTIDAD" /\ Lower(peek(p).texto) = "deportista"

\* parse_lista_o_carga: the for loop reading up to three integers from p:
\* how many it read
RECURSIVE leer_numeros(_, _)
leer_numeros(p, k) ==
    IF k < 3 /\ HasTok(p) /\ peek(p).tipo = "NUMERO_ENTERO"
    THEN leer_numeros(p + 1, k + 1)
    ELSE k

\* parse_lista_o_carga: the bulk-load while loop
RECURSIVE carga_loop(_, _)

\* parse_lista_o_carga: the end of one iteration of the bulk-load loop: the
\* tuple read from start_pos joins deportistas, unless deporte or pais failed
carga_tupla(start_pos, deportistas, deporte, pais) ==
    IF deporte = NoTok \/ pais.tok = NoTok
    THEN [ps |-> pais.ps, deportistas |-> deportistas]
    ELSE carga_loop(pais.ps,
             Append(deportistas,
                 [nombre |-> peek(start_pos).texto,
                  estadisticas |-> <<peek(start_pos + 1).texto,
                                     peek(start_pos + 2).texto,
                                     peek(start_pos + 3).texto>>,
                  deporte |-> deporte.texto,
                  pais |-> pais.tok.texto]))

carga_loop(ps, deportistas) ==
    IF HasTok(ps.pos) /\ peek(ps.pos).tipo = "NOMBRE_IDENTIFICADOR"
    THEN LET start_pos == ps.pos
             k == leer_numeros(start_pos + 1, 0)
         IN  IF k # 3
             THEN [ps |-> [ps EXCEPT !.pos = start_pos], deportistas |-> deportistas]
             ELSE LET dep == expect([ps EXCEPT !.pos = start_pos + 4],
                                    "NOMBRE_IDENTIFICADOR", "", DefaultMsg)
                  IN  carga_tupla(start_pos, deportistas, dep.tok,
                                  expect(dep.ps, "NOMBRE_IDENTIFICADOR", "", DefaultMsg))
    ELSE [ps |-> ps, deportistas |-> deportistas]

\* parse_lista_o_carga: if deportistas: (the bulk load) else: self.pos = saved_pos
carga_o_retroceso(carga, saved_pos) ==
    IF carga.deportistas # <<>>
    THEN carga
    ELSE [ps |-> [carga.ps EXCEPT !.pos = saved_pos], deportistas |-> <<>>]

\* parse_lista_o_carga: the lookahead block after 'Lista'.  The result
\* carries the cursor the block leaves and, when a bulk load was parsed, its
\* entries.  The log gets one record of the lookahead: guardado the cursor
\* saved (before 'Deportista'), inicio the cursor once 'Deportista' is
\* consumed, lejos the furthest cursor, fin the cursor restored.
lista_lookahead(ps) ==
    LET saved_pos == ps.pos
        tras_deportista == adv(ps)
        hay_nombre == HasTok(tras_deportista.pos)
                        /\ peek(tras_deportista.pos).tipo = "NOMBRE_IDENTIFICADOR"
        tras_nombre == adv(tras_deportista)
        es_carga_masiva == HasTok(tras_nombre.pos)
                             /\ peek(tras_nombre.pos).tipo = "NUMERO_ENTERO"
        restaurado == [tras_nombre EXCEPT
                          !.pos = saved_pos,
                          !.log = Append(@, [ev |-> "lookahead", guardado |-> saved_pos,
                                             inicio |-> tras_deportista.pos,
                                             lejos |-> tras_nombre.pos,
                                             fin |-> saved_pos])]
        sin_nombre == [tras_deportista EXCEPT
                          !.log = Append(@, [ev |-> "lookahead", guardado |-> saved_pos,
                                             inicio |-> tras_deportista.pos,
                                             lejos |-> tras_deportista.pos,
                                             fin |-> tras_deportista.pos])]
    IN  IF ~IsDeportistaDecl(ps.pos)
        THEN [ps |-> ps, deportistas |-> <<>>]
        ELSE IF ~hay_nombre
        THEN [ps |-> sin_nombre, deportistas |-> <<>>]
        ELSE IF ~es_carga_masiva
        THEN [ps |-> restaurado, deportistas |-> <<>>]
        ELSE carga_o_retroceso(carga_loop(restaurado, <<>>), saved_pos)

\* parse_lista_o_carga: the Lista node of the simple declaration
lista_nodo(tok_lista, tipo, nombre) ==
    R(nombre.ps, Node("Lista", OrVacio(TextoDe(nombre.tok)),
                      [tipo |-> TextoDe(tipo.tok), nombre |-> TextoDe(nombre.tok),
                       linea |-> Algun(tok_lista.linea)], <<>>))

\* parse_lista_o_carga: nombre = self.expect(...) and the Lista node
lista_nombre(tok_lista, tipo) ==
    lista_nodo(tok_lista, tipo,
               expect(tipo.ps, "NOMBRE_IDENTIFICADOR", "", "Nombre de lista faltante"))

\* parse_lista_o_carga: the simple declaration Lista Tipo Nombre
lista_simple(tok_lista, ps) ==
    lista_nombre(tok_lista,
                 IF IsDeportistaDecl(ps.pos)
                 THEN advance(ps)
                 ELSE expect(ps, "NOMBRE_IDENTIFICADOR", "", "Tipo de lista inválido"))

\* parse_lista_o_carga: after the lookahead block k
lista_tras_lookahead(tok_lista, k) ==
    IF k.deportistas # <<>>
    THEN R(k.ps, Node("CargaDeportistas", "Lista Deportista",
                      [deportistas |-> k.deportistas, linea |-> Algun(tok_lista.linea)],
                      <<>>))
    ELSE lista_simple(tok_lista, k.ps)

\* parse_lista_o_carga: after tok_lista = self.expect(...)
lista_tras_lista(l) ==
    IF l.tok = NoTok
    THEN R(l.ps, Node("ErrorSintactico", "Lista", [linea |-> None], <<>>))
    ELSE lista_tras_lookahead(l.tok, lista_lookahead(l.ps))

\* Parser.parse_lista_o_carga
parse_lista_o_carga(ps) ==
    lista_tras_lista(expect(ps, "DECLARACION_ENTIDAD", "Lista", DefaultMsg))

(***************************************************************************)
(* Results                                                                 *)
(***************************************************************************)

\* parse_resultado: the node, x what the four expects left and returned
resultado_nodo(x) ==
    R(x.ps, Node("Resultado", "Resultado",
                 [linea |-> LineaDe(x.toks[1]),
                  valores |-> <<TextoDe(x.toks[2]), TextoDe(x.toks[4])>>], <<>>))

\* Parser.parse_resultado
parse_resultado(ps) ==
    resultado_nodo(
        expects(ps, <<Exp("TIPO_DATO_DOMINIO", "Resultado", "Se esperaba 'Resultado'"),
                      Exp("NUMERO_ENTERO", "", "Resultado requiere primer número"),
                      Exp("SIMBOLO_PUNTUACION", "-", "Resultado requiere '-' entre números"),
                      Exp("NUMERO_ENTERO", "", "Resultado requiere segundo número")>>,
                <<>>))

\* parse_resultado_extra / parse_empate: the node, e what expect did
token_nodo(tipo, dflt, e) ==
    R(e.ps, Node(tipo, IF e.tok = NoTok THEN dflt ELSE e.tok.texto,
                 [linea |-> LineaDe(e.tok)], <<>>))

\* Parser.parse_resultado_extra
parse_resultado_extra(ps) ==
    token_nodo("ResultadoExtra", "listaRes",
               expect(ps, "RESULTADO_ADICIONAL", "listaRes", "Se esperaba 'listaRes'"))

\* Parser.parse_empate
parse_empate(ps) ==
    token_nodo("Empate", "empate",
               expect(ps, "CONDICION_EMPATE", "empate", "Se esperaba 'empate'"))

(***************************************************************************)
(* Productions with a command loop.  A call of one of them is a frame on   *)
(* the stack: the locals of the Python function and the loop it is in.     *)
(***************************************************************************)

\* no frame
NoFrame == [proc |-> ""]

\* the locals of a production entered by the parse_comando call made with the
\* parser in state ps0: t1, t2 the tokens it keeps, cond the condition text
\* ("" in a production that keeps none)
Frame(proc, ps0, t1, t2, cond) ==
    [proc |-> proc, fase |-> "loop", desde |-> ps0.pos, e0 |-> Len(ps0.errors),
     t1 |-> t1, t2 |-> t2, cond |-> cond,
     hijos |-> <<>>, sino |-> <<>>, empate |-> NoNode, resultado |-> NoNode,
     extras |-> <<>>]

\* parse_program: raiz = asaNode("Programa", "root")
ProgramFrame == Frame("program", PS(0, <<>>, {}, <<>>), NoTok, NoTok, "")

\* parse_comando returned the node nodo
Done(ps, nodo) == [kind |-> "node", ps |-> ps, nodo |-> nodo, frame |-> NoFrame]

\* parse_comando entered a production with a command loop
Enter(ps, frame) == [kind |-> "call", ps |-> ps, nodo |-> NoNode, frame |-> frame]

\* parse_comando: tok = self.advance(); return asaNode(tipo, tok.texto_original, ...)
Leaf(ps, tipo) ==
    Done(adv(ps),
         Node(tipo, peek(ps.pos).texto, [linea |-> Algun(peek(ps.pos).linea)], <<>>))

\* parse_partido: its frame, x what the three expects left and returned
partido_frame(ps0, x) == Enter(x.ps, Frame("partido", ps0, x.toks[1], x.toks[3], ""))

\* Parser.parse_partido up to its loop
enter_partido(ps) ==
    partido_frame(ps,
        expects(ps, <<Exp("NOMBRE_IDENTIFICADOR", "", "Partido requiere primer país"),
                      Exp("OPERADOR_ESPECIAL", "vs", "Partido requiere 'vs' entre países"),
                      Exp("NOMBRE_IDENTIFICADOR", "", "Partido requiere segundo país")>>,
                <<>>))

\* parse_carrera / parse_rutina / parse_combate: the frame, i what expect did
competencia_frame(ps0, proc, i) == Enter(i.ps, Frame(proc, ps0, i.tok, NoTok, ""))

\* Parser.parse_carrera / parse_rutina / parse_combate up to the loop
enter_competencia(ps, proc, inicio) ==
    competencia_frame(ps, proc,
        expect(ps, "PALABRA_CLAVE", inicio, "Se esperaba '" \o inicio \o "'"))

\* Parser.parse_accion_stub up to its loop
enter_accion_stub(ps) ==
    IF ~HasTok(ps.pos)
    THEN Done(report_error(ps, "AccionStub incompleta: token de inicio ausente", NoTok),
              Node("ErrorSintactico", "AccionStub", [linea |-> None], <<>>))
    ELSE Enter(adv(ps), Frame("stub", ps, peek(ps.pos), NoTok, ""))

\* parse_condicional with the condition node kept as the first child
condicional_con_condicion(ps0, si_tok, c) ==
    Enter(expects(c.ps,
                  <<Exp("ESTRUCTURA_CONTROL_FLUJO", "entonces",
                        "Falta 'entonces' en condicional"),
                    Exp("SIMBOLO_PUNTUACION", "{", "Falta '{' de apertura en condicional")>>,
                  <<>>).ps,
          [Frame("condicional", ps0, si_tok, NoTok, c.nodo.contenido)
             EXCEPT !.hijos = <<c.nodo>>])

\* parse_condicional: 'entonces' and '{' after the condition c, and the frame
condicional_tras_condicion(ps0, si_tok, c) ==
    Enter(expects(c.ps,
                  <<Exp("ESTRUCTURA_CONTROL_FLUJO", "entonces",
                        "Falta 'entonces' en condicional"),
                    Exp("SIMBOLO_PUNTUACION", "{", "Falta '{' de apertura en condicional")>>,
                  <<>>).ps,
          Frame("condicional", ps0, si_tok, NoTok, c.nodo.contenido))

\* parse_condicional: after si_tok = self.expect(...)
condicional_tras_si(ps0, si) ==
    condicional_tras_condicion(ps0, si.tok, parse_condicion_expresion(si.ps))

\* Parser.parse_condicional up to the loop of the body
enter_condicional(ps) ==
    condicional_tras_si(ps, expect(ps, "ESTRUCTURA_CONTROL_FLUJO", "si", DefaultMsg))

\* parse_repetir: the frame, x what the five expects left and returned
repetir_frame(ps0, x) == Enter(x.ps, Frame("repetir", ps0, x.toks[3], NoTok, ""))

\* Parser.parse_repetir up to the loop of the body
enter_repetir(ps) ==
    repetir_frame(ps,
        expects(ps, <<Exp("ESTRUCTURA_CONTROL_FLUJO", "Repetir", DefaultMsg),
                      Exp("SIMBOLO_PUNTUACION", "(", "Falta '(' en Repetir"),
                      Exp("NUMERO_ENTERO", "", "Repetir requiere un número entero"),
                      Exp("SIMBOLO_PUNTUACION", ")", "Falta ')' en Repetir"),
                      Exp("SIMBOLO_PUNTUACION", "[", "Falta '[' en bloque Repetir")>>,
                <<>>))

\* parse_repetir_hasta: ')' and '[' after the condition c, and the frame
repetir_hasta_tras_condicion(ps0, c) ==
    Enter(expects(c.ps,
                  <<Exp("SIMBOLO_PUNTUACION", ")", "Falta ')' en RepetirHasta"),
                    Exp("SIMBOLO_PUNTUACION", "[", "Falta '[' en bloque RepetirHasta")>>,
                  <<>>).ps,
          Frame("repetir_hasta", ps0, NoTok, NoTok, c.nodo.contenido))

\* Parser.parse_repetir_hasta up to the loop of the body
enter_repetir_hasta(ps) ==
    repetir_hasta_tras_condicion(ps,
        parse_condicion_expresion(
            expects(ps, <<Exp("ESTRUCTURA_CONTROL_FLUJO", "RepetirHasta", DefaultMsg),
                          Exp("SIMBOLO_PUNTUACION", "(", "Falta '(' en RepetirHasta")>>,
                    <<>>).ps))

\* parse_comando: return self.parse_xxx() of a production without a command loop
FromR(r) == Done(r.ps, r.nodo)

\* parse_comando: the PALABRA_CLAVE branch
comando_clave(ps) ==
    LET low == Lower(peek(ps.pos).texto) IN
      IF low = "finact" THEN Leaf(ps, "FinAct")
      ELSE IF low = "fincarr" THEN Leaf(ps, "FinCarr")
      ELSE IF low = "finruti" THEN Leaf(ps, "FinRuti")
      ELSE IF low = "fincomb" THEN Leaf(ps, "FinComb")
      ELSE IF low = "iniciocarrera" THEN enter_competencia(ps, "carrera", "InicioCarrera")
      ELSE IF low = "iniciorutina" THEN enter_competencia(ps, "rutina", "InicioRutina")
      ELSE IF low = "iniciocombate" THEN enter_competencia(ps, "combate", "InicioCombate")
      ELSE IF low \in {"preparacion", "ejecutar", "correr", "finprep"} THEN Leaf(ps, "Clave")
      ELSE enter_accion_stub(ps)

\* a fallback that reports the token and leaves it in the stream
comando_fallback_sin_avanzar(ps) ==
    Done(report_error(ps, "Token fuera de producción Comando", peek(ps.pos)),
         Node("Unknown", peek(ps.pos).texto, [linea |-> Algun(peek(ps.pos).linea)],
              <<>>))

\* parse_comando: the fallback
comando_fallback(ps) ==
    LET tok == peek(ps.pos) IN
      Done(report_error(adv(ps), "Token fuera de producción Comando", tok),
           Node("Unknown", tok.texto, [linea |-> Algun(tok.linea)], <<>>))

\* Parser.parse_comando
parse_comando(ps) ==
    LET t == peek(ps.pos)
        low == Lower(t.texto)
        nxt == peek(ps.pos + 1)
    IN  IF ~HasTok(ps.pos)
        THEN [kind |-> "none", ps |-> ps, nodo |-> NoNode, frame |-> NoFrame]
        ELSE IF t.tipo = "COMENTARIO" THEN Leaf(ps, "Comentario")
        ELSE IF t.tipo = "DECLARACION_ENTIDAD" /\ low = "deportista"
        THEN FromR(parse_deportista(ps))
        ELSE IF t.tipo = "DECLARACION_ENTIDAD" /\ low = "lista"
        THEN FromR(parse_lista_o_carga(ps))
        ELSE IF t.tipo = "ESTRUCTURA_CONTROL_FLUJO" /\ low = "si"
        THEN enter_condicional(ps)
        ELSE IF t.tipo = "ESTRUCTURA_CONTROL_FLUJO" /\ low = "repetir"
        THEN enter_repetir(ps)
        ELSE IF t.tipo = "ESTRUCTURA_CONTROL_FLUJO" /\ low = "repetirhasta"
        THEN enter_repetir_hasta(ps)
        ELSE IF t.tipo = "ESTRUCTURA_CONTROL_FLUJO" /\ low \in {"finrep", "finrephast", "endif"}
        THEN Leaf(ps, "Cierre")
        ELSE IF t.tipo = "INVOCACION_FUNCION"
        THEN FromR(IF StartsWith(low, "narrar") THEN parse_narrar(ps)
                   ELSE IF StartsWith(low, "input") THEN parse_dirigir(ps)
                   ELSE IF StartsWith(low, "comparar") THEN parse_invocacion_generica(ps)
                   ELSE parse_invocacion_generica(ps))
        ELSE IF t.tipo = "PALABRA_CLAVE" THEN comando_clave(ps)
        ELSE IF t.tipo = "TIPO_DATO_DOMINIO" /\ t.texto = "Resultado"
        THEN FromR(parse_resultado(ps))
        ELSE IF t.tipo = "RESULTADO_ADICIONAL"
        THEN FromR(parse_resultado_extra(ps))
        ELSE IF t.tipo = "CONDICION_EMPATE"
        THEN FromR(parse_empate(ps))
        ELSE IF /\ t.tipo = "NOMBRE_IDENTIFICADOR" /\ ps.pos + 1 < Len(tokens)
                /\ nxt.tipo = "OPERADOR_ESPECIAL" /\ Lower(nxt.texto) = "vs"
        THEN enter_partido(ps)
        ELSE IF t.tipo = "NOMBRE_IDENTIFICADOR" THEN Leaf(ps, "Identificador")
        ELSE IF t.tipo = "SIMBOLO_PUNTUACION" THEN Leaf(ps, "Simbolo")
        ELSE comando_fallback(ps)

(***************************************************************************)
(* One loop iteration of a production: what it does to its frame f and to  *)
(* the parser state ps.                                                    *)
(*   stay : the loop goes on in frame f                                    *)
(*   push : parse_comando entered a production, its frame goes on top      *)
(*   ret  : the production returns nodo to its caller                      *)
(*   break: parse_comando returned None                                    *)
(***************************************************************************)

Stay(f, ps) ==
    [mode |-> "stay", ps |-> ps, frame |-> f, push |-> NoFrame, nodo |-> NoNode]

Ret(f, ps, nodo) ==
    [mode |-> "ret", ps |-> ps, frame |-> f, push |-> NoFrame, nodo |-> nodo,
     desde |-> f.desde, e0 |-> f.e0]

\* a node returned by parse_comando joins the list its caller is filling:
\* sino_bloque in the 'sino' loop of a conditional, else acciones / cuerpo /
\* hijos
AddChild(f, nodo) ==
    IF f.proc = "condicional" /\ f.fase = "sino"
    THEN [f EXCEPT !.sino = Append(@, nodo)]
    ELSE [f EXCEPT !.hijos = Append(@, nodo)]

\* n = self.parse_comando(); if n: lista.append(n) else: break, with c what
\* parse_comando did from the state ps
comando_de(f, ps, c) ==
      IF c.kind = "node"
      THEN [mode |-> "stay", ps |-> c.ps, frame |-> AddChild(f, c.nodo), push |-> NoFrame,
            nodo |-> c.nodo, desde |-> ps.pos, e0 |-> Len(ps.errors)]
      ELSE IF c.kind = "call"
      THEN [mode |-> "push", ps |-> c.ps, frame |-> f, push |-> c.frame, nodo |-> NoNode]
      ELSE [mode |-> "break", ps |-> c.ps, frame |-> f, push |-> NoFrame, nodo |-> NoNode]

\* n = self.parse_comando(); if n: lista.append(n) else: break
comando(f, ps) == comando_de(f, ps, parse_comando(ps))

\* the loop goes on with r, or leaves through salida on break
OrBreak(r, salida) == IF r.mode = "break" THEN salida ELSE r

\* resultado_node = self.parse_resultado(): the loop after Resultado is next
con_resultado(f, r) == Stay([f EXCEPT !.resultado = r.nodo, !.fase = "post"], r.ps)

\* extras.append(self.parse_resultado_extra())
con_extra(f, r) == Stay([f EXCEPT !.extras = Append(@, r.nodo)], r.ps)

\* empate_node = self.parse_empate()
con_empate(f, r) == Stay([f EXCEPT !.empate = r.nodo], r.ps)

\* [x] if x else []
Opt(nodo) == IF nodo = NoNode THEN <<>> ELSE <<nodo>>

\* parse_partido: from the mandatory 'finact' to the return
partido_cierre(f, ps) ==
    LET p == peek(ps.pos)
        c == IF HasTok(ps.pos) /\ p.tipo = "PALABRA_CLAVE" /\ Lower(p.texto) = "finact"
             THEN adv(ps)
             ELSE report_error(ps, "Se esperaba 'finact' al final de Partido", p)
        q == IF f.resultado = NoNode
             THEN report_error(c, "Partido requiere 'Resultado' antes de 'finact'", peek(c.pos))
             ELSE c
    IN  Ret(f, q, Node("Partido", Str(TextoDe(f.t1)) \o " vs " \o Str(TextoDe(f.t2)),
                       [paisA |-> TextoDe(f.t1), paisB |-> TextoDe(f.t2),
                        linea |-> IF f.t1 # NoTok THEN Algun(f.t1.linea)
                                  ELSE LineaDe(f.t2)],
                       f.hijos \o Opt(f.empate) \o Opt(f.resultado) \o f.extras))

\* parse_partido: if not empate_node: parse_empate() else: report; continue
partido_empate(f, ps) ==
    IF f.empate = NoNode
    THEN con_empate(f, parse_empate(ps))
    ELSE Stay(f, report_error(ps, "Empate duplicado en Partido", peek(ps.pos)))

\* parse_partido: one iteration of the outer loop (fase "loop") or of the
\* loop after Resultado (fase "post")
partido_step(f, ps) ==
    LET p == peek(ps.pos)
        low == Lower(p.texto)
    IN  IF f.fase = "loop"
        THEN IF ~HasTok(ps.pos) THEN partido_cierre(f, ps)
             ELSE IF p.tipo = "TIPO_DATO_DOMINIO" /\ low = "resultado"
             THEN con_resultado(f, parse_resultado(ps))
             ELSE IF p.tipo = "CONDICION_EMPATE" /\ low = "empate"
             THEN partido_empate(f, ps)
             ELSE IF p.tipo = "PALABRA_CLAVE" /\ low = "finact"
             THEN partido_cierre(f, ps)
             ELSE OrBreak(comando(f, ps), partido_cierre(f, ps))
        ELSE IF HasTok(ps.pos) /\ low \in {"listares", "empate"}
             THEN IF p.tipo = "RESULTADO_ADICIONAL"
                  THEN con_extra(f, parse_resultado_extra(ps))
                  ELSE IF p.tipo = "CONDICION_EMPATE"
                  THEN partido_empate(f, ps)
                  ELSE partido_cierre(f, ps)
             ELSE partido_cierre(f, ps)

\* parse_carrera / parse_rutina / parse_combate: from the closing keyword to
\* the return
competencia_cierre(f, ps, nombre, fin) ==
    LET p == peek(ps.pos)
        c == IF HasTok(ps.pos) /\ p.tipo = "PALABRA_CLAVE" /\ Lower(p.texto) = Lower(fin)
             THEN adv(ps)
             ELSE report_error(ps, "Se esperaba '" \o fin \o "' al final de " \o nombre, p)
        q == IF f.resultado = NoNode
             THEN report_error(c, nombre \o " requiere 'Resultado' antes de '" \o fin \o "'",
                               peek(c.pos))
             ELSE c
    IN  Ret(f, q, Node(nombre, "Inicio" \o nombre, [linea |-> LineaDe(f.t1)],
                       f.hijos \o Opt(f.resultado) \o f.extras))

\* parse_carrera / parse_rutina / parse_combate: one iteration of the outer
\* loop (fase "loop") or of the listaRes loop (fase "post")
competencia_step(f, ps, nombre, fin) ==
    LET p == peek(ps.pos)
        low == Lower(p.texto)
    IN  IF f.fase = "loop"
        THEN IF ~HasTok(ps.pos) THEN competencia_cierre(f, ps, nombre, fin)
             ELSE IF p.tipo = "TIPO_DATO_DOMINIO" /\ low = "resultado"
             THEN con_resultado(f, parse_resultado(ps))
             ELSE IF p.tipo = "PALABRA_CLAVE" /\ low = Lower(fin)
             THEN competencia_cierre(f, ps, nombre, fin)
             ELSE OrBreak(comando(f, ps), competencia_cierre(f, ps, nombre, fin))
        ELSE IF HasTok(ps.pos) /\ low = "listares"
             THEN con_extra(f, parse_resultado_extra(ps))
             ELSE competencia_cierre(f, ps, nombre, fin)

\* Parser.parse_carrera
carrera_step(f, ps) == competencia_step(f, ps, "Carrera", "finCarr")

\* Parser.parse_rutina
rutina_step(f, ps) == competencia_step(f, ps, "Rutina", "finRuti")

\* Parser.parse_combate
combate_step(f, ps) == competencia_step(f, ps, "Combate", "finComb")

\* parse_accion_stub: terminadores
terminadores == {"finact", "fincarr", "finruti", "finprep"}

\* parse_accion_stub: one iteration of the loop, or the return
accion_stub_step(f, ps) ==
    LET low == Lower(peek(ps.pos).texto)
        fin == Ret(f, ps, Node("AccionStub", f.t1.texto, [linea |-> Algun(f.t1.linea)],
                               f.hijos))
    IN  IF HasTok(ps.pos) /\ low \notin terminadores
            /\ low \notin {"resultado", "listares", "empate"}
        THEN OrBreak(comando(f, ps), fin)
        ELSE fin

\* parse_condicional: the two closing expects and the return
condicional_cierre(f, ps) ==
    LET e == expect(expect(ps, "SIMBOLO_PUNTUACION", "}",
                           "Falta '}' de cierre en condicional principal").ps,
                    "ESTRUCTURA_CONTROL_FLUJO", "endif",
                    "Falta 'endif' al final de condicional")
    IN  Ret(f, e.ps,
            Node("Condicional", "si", [condicion |-> f.cond, linea |-> LineaDe(f.t1)],
                 f.hijos \o (IF f.sino # <<>>
                             THEN <<Node("Sino", "", NoAttrs, f.sino)>>
                             ELSE <<>>)))

\* parse_condicional: after the body: the 'sino' branch is entered, or the
\* conditional is closed
condicional_tras_cuerpo(f, ps) ==
    IF HasTok(ps.pos) /\ Lower(peek(ps.pos).texto) = "sino"
    THEN Stay([f EXCEPT !.fase = "sino"],
              expect(adv(ps), "SIMBOLO_PUNTUACION", "{", "Falta '{' después de 'sino'").ps)
    ELSE condicional_cierre(f, ps)

\* parse_condicional: after the 'sino' block
condicional_tras_sino(f, ps) ==
    condicional_cierre(f, expect(ps, "SIMBOLO_PUNTUACION", "}",
                                 "Falta '}' de cierre en bloque 'sino'").ps)

\* parse_condicional: one iteration of the body loop (fase "loop") or of the
\* 'sino' loop (fase "sino")
condicional_step(f, ps) ==
    LET low == Lower(peek(ps.pos).texto) IN
      IF f.fase = "loop"
      THEN IF HasTok(ps.pos) /\ low \notin {"}", "sino", "endif"}
           THEN OrBreak(comando(f, ps), condicional_tras_cuerpo(f, ps))
           ELSE condicional_tras_cuerpo(f, ps)
      ELSE IF HasTok(ps.pos) /\ low \notin {"}", "endif"}
           THEN OrBreak(comando(f, ps), condicional_tras_sino(f, ps))
           ELSE condicional_tras_sino(f, ps)

\* parse_repetir: one iteration of the body loop, or the closing expects and
\* the return
repetir_step(f, ps) ==
    LET low == Lower(peek(ps.pos).texto)
        fin == Ret(f, expect(expect(ps, "SIMBOLO_PUNTUACION", "]", "Falta ']' en Repetir").ps,
                             "ESTRUCTURA_CONTROL_FLUJO", "FinRep",
                             "Falta 'FinRep' después del bloque Repetir").ps,
                   Node("Repetir", IF f.t1 = NoTok THEN "" ELSE f.t1.texto,
                                 NoAttrs, f.hijos))
    IN  IF HasTok(ps.pos) /\ low \notin {"finrep", "]"}
        THEN OrBreak(comando(f, ps), fin)
        ELSE fin

\* parse_repetir_hasta: one iteration of the body loop, or the closing
\* expects and the return
repetir_hasta_step(f, ps) ==
    LET low == Lower(peek(ps.pos).texto)
        fin == Ret(f, expect(expect(ps, "SIMBOLO_PUNTUACION", "]",
                                    "Falta ']' en RepetirHasta").ps,
                             "ESTRUCTURA_CONTROL_FLUJO", "FinRepHast",
                             "Falta 'FinRepHast' en RepetirHasta").ps,
                   Node("RepetirHasta", f.cond, NoAttrs, f.hijos))
    IN  IF HasTok(ps.pos) /\ low \notin {"finrephast", "]"}
        THEN OrBreak(comando(f, ps), fin)
        ELSE fin

\* the last parse_comando call that returned: none
NoLast == [nodo |-> NoNode]

(***************************************************************************)
(*                     symbol_table.py : SymbolTable                       *)
(***************************************************************************)

\* Bound: deepest scope level the table is driven to.
MaxDepth == 2

Names == {"a", "b"}
Types == {"entity:Deportista", "list:Deportista"}
\* The node and the line every declaration of SpecTable is made with.
DeclNode == 7
DeclLine == 3

\* SymbolEntry(name, typ, defined_node, defined_line, scope_level)
SymbolEntry(name, typ, node, line, level) ==
    [name |-> name, type |-> typ, defined_node |-> node,
     defined_line |-> line, scope_level |-> level]

\* lookup's None: no SymbolEntry
NoEntry == [entry |-> FALSE]
\* declare's None
NoErr == None

\* {} : a dict with no keys
EmptyScope == [n \in {} |-> NoEntry]

\* SymbolTable.__init__
NewTable == <<EmptyScope>>

\* len(self.scopes) - 1
current_level(s) == Len(s) - 1

\* self.scopes.append({})
enter_scope(s) == Append(s, EmptyScope)

\* exit_scope without the len(self.scopes) > 1 guard
exit_scope_unguarded(s) == IF Len(s) >= 1 THEN SubSeq(s, 1, Len(s) - 1) ELSE s

\* if len(self.scopes) > 1: self.scopes.pop()
exit_scope(s) == IF Len(s) > 1 THEN SubSeq(s, 1, Len(s) - 1) ELSE s

\* declare: the message returned for a duplicate
DuplicateMsg(name, level) ==
    "Declaración duplicada: '" \o Str(name) \o "' ya existe en el scope actual (nivel "
        \o ToString(level) \o ")"

\* the duplicate test of declare made with lookup (any scope) instead of
\* the innermost scope
declare_any_scope(s, name, typ, node, line) ==
    IF \E i \in 1..Len(s) : name \in DOMAIN s[i]
    THEN [scopes |-> s,
          err |-> Algun(DuplicateMsg(name, current_level(s)))]
    ELSE [scopes |-> [s EXCEPT ![Len(s)] =
                        (name :> SymbolEntry(name, typ, node, line, current_level(s))) @@ @],
          err |-> NoErr]

\* declare: scope = self.scopes[-1]; duplicate -> message, else insert
declare(s, name, typ, node, line) ==
    IF name \in DOMAIN s[Len(s)]
    THEN [scopes |-> s,
          err |-> Algun(DuplicateMsg(name, current_level(s)))]
    ELSE [scopes |-> [s EXCEPT ![Len(s)] =
                        (name :> SymbolEntry(name, typ, node, line, current_level(s))) @@ @],
          err |-> NoErr]

\* lookup scanning the scopes from the global one inwards
lookup_outer_first(s, name) ==
    IF \E i \in 1..Len(s) : name \in DOMAIN s[i]
    THEN s[CHOOSE i \in 1..Len(s) :
             /\ name \in DOMAIN s[i]
             /\ \A j \in 1..(i - 1) : name \notin DOMAIN s[j]][name]
    ELSE NoEntry

\* for s in reversed(self.scopes): if name in s: return s[name]
RECURSIVE lookup_from(_, _, _)
lookup_from(s, name, i) ==
    IF i = 0 THEN NoEntry
    ELSE IF name \in DOMAIN s[i] THEN s[i][name]
    ELSE lookup_from(s, name, i - 1)

lookup(s, name) == lookup_from(s, name, Len(s))

\* The record of one SymbolTable call: name and typ are None in a call that
\* takes none.
Call(op, name, typ, level, err, entry) ==
    [op |-> op, name |-> name, typ |-> typ, level |-> level, err |-> err, entry |-> entry]

\* The table before any call.
TableIdle ==
    /\ scopes = NewTable
    /\ st = Call("init", None, None, 0, NoErr, NoEntry)

(***************************************************************************)
(*                 verificador.py : Verifier                               *)
(***************************************************************************)

\* d.get(k, dflt) on an attribute or decoration dictionary
Get(d, k, dflt) == IF k \in DOMAIN d THEN d[k] ELSE dflt

\* the truth value Python gives the text or None of an optional slot
Truthy(x) == x # None /\ x # Algun("")

\* the characters c of U+0000..U+00FF with c.isdigit()
Digitos == {"0", "1", "2", "3", "4", "5", "6", "7", "8", "9", "²", "³", "¹"}

\* s.isdigit()
isdigit(s) == s # "" /\ \A i \in 1..Len(s) : Car(s, i) \in Digitos

\* a.startswith('"')
ComillaDoble(a) == StartsWith(a, "\"")

\* (s.startswith('"') and s.endswith('"')) or (s.startswith("'") and s.endswith("'"))
EntreComillas(s) ==
    \/ StartsWith(s, "\"") /\ EndsWith(s, "\"")
    \/ StartsWith(s, "'") /\ EndsWith(s, "'")

\* ' ' in a
ConEspacio(a) == \E i \in 1..Len(a) : Car(a, i) = " "

\* t.startswith('list'), t.startswith('entity')
EsLista(t) == StartsWith(t, "list")
EsEntidad(t) == StartsWith(t, "entity")

\* SemanticError(message, line, column), severity "ERROR"
SemanticError(message, line, column) ==
    [message |-> message, line |-> line, column |-> column]

\* Verifier.builtins
builtins ==
    [comparar |-> [args |-> Algun(2), ret |-> "int"],
     narrar |-> [args |-> None, ret |-> "void"],
     input |-> [args |-> Algun(1), ret |-> "void"]]

\* One entry of the trace of a pass: what was done at node id.  nombre is the
\* name declared or used (None in an entry that has none), dato a text: the
\* type found, the message reported or returned ("" for none).
Ev(ev, id, tipo, nombre, dato, nivel, enctx) ==
    [ev |-> ev, id |-> id, tipo |-> tipo, nombre |-> nombre, dato |-> dato,
     nivel |-> nivel, enctx |-> enctx]

\* The Verifier's fields as a visitor threads them; excepcion is the
\* exception a visitor raised, "" if none.
VS(s, errs, decs, snaps, ctx, tr) ==
    [scopes |-> s, errors |-> errs, decorations |-> decs, snapshots |-> snaps,
     error_context_stack |-> ctx, traza |-> tr, excepcion |-> ""]

\* Verifier._in_error_context: any(self.error_context_stack)
in_error_context(v) ==
    \E i \in 1..Len(v.error_context_stack) : v.error_context_stack[i]

\* the trace entry of an operation at node id
Anota(v, ev, id, node, nombre, dato) ==
    [v EXCEPT !.traza = Append(@, Ev(ev, id, node.tipo, nombre, dato,
                                     current_level(v.scopes), in_error_context(v)))]

\* _add_error: if not msg.startswith('[SEM]'): msg = f"[SEM] {msg}"
ConPrefijo(msg) == IF StartsWith(msg, "[SEM]") THEN msg ELSE "[SEM] " \o msg

\* Verifier._add_error(msg, node, column): the line of the node, the prefix
add_error_en(v, msg, node, id, column) ==
    Anota([v EXCEPT !.errors =
               Append(@, SemanticError(ConPrefijo(msg),
                                       Get(node.atributos, "linea", Algun(0)), column))],
          "error", id, node, None, ConPrefijo(msg))

\* Verifier._add_error(msg, node): column = 0 by default
add_error(v, msg, node, id) == add_error_en(v, msg, node, id, 0)

\* Verifier._identificador_no_declarado
NoDeclaradoMsg(nombre) ==
    "Identificador no declarado '" \o Str(nombre) \o "' antes de su uso"
identificador_no_declarado(v, nombre, node, id) ==
    add_error(v, NoDeclaradoMsg(nombre), node, id)

\* SymbolEntry.to_dict
to_dict(e) ==
    [name |-> e.name, type |-> e.type, defined_line |-> e.defined_line,
     scope_level |-> e.scope_level]

\* SymbolTable.snapshot: scope_<lvl> is index lvl + 1
snapshot(s) == [i \in 1..Len(s) |-> [k \in DOMAIN s[i] |-> to_dict(s[i][k])]]

\* Verifier._decorate; the snapshot's 'when' is the wall clock and is left out
decorate(v, id, node, info) ==
    Anota([v EXCEPT
             !.decorations = (id :> info) @@ @,
             !.snapshots =
                 IF node.tipo \in {"Deportista", "Lista", "CargaDeportistas"}
                 THEN Append(@, [node |-> node.tipo,
                                 line |-> Get(node.atributos, "linea", None),
                                 table |-> snapshot(v.scopes)])
                 ELSE @],
          "decorate", id, node, None, Get(info, "tipo", ""))

\* isinstance(a, str) for the text or None of an optional slot
EsTexto(a) == a # None

\* a _resolve_arg_type that never consults the table
resolve_arg_type_sin_tabla(s, a) ==
    IF ~EsTexto(a) THEN "unknown"
    ELSE IF EntreComillas(Strip(Valor(a))) THEN "string"
    ELSE IF isdigit(Strip(Valor(a))) THEN "int"
    ELSE "unknown"

\* Verifier._resolve_arg_type: a is an element of args
resolve_arg_type(s, a) ==
    IF ~EsTexto(a) THEN "unknown"
    ELSE IF EntreComillas(Strip(Valor(a))) THEN "string"
    ELSE IF isdigit(Strip(Valor(a))) THEN "int"
    ELSE IF lookup(s, Algun(Strip(Valor(a)))) # NoEntry
    THEN lookup(s, Algun(Strip(Valor(a)))).type
    ELSE "unknown"

\* [self._resolve_arg_type(a) for a in args]
arg_types(s, args) == [i \in 1..Len(args) |-> resolve_arg_type(s, args[i])]

\* err = self.table.declare(...); if err: self._add_error(err, node)
con_declaracion(v, err, node, id) ==
    IF err # NoErr THEN add_error(v, Valor(err), node, id) ELSE v

declarar(v, name, typ, node, id) ==
    LET r == declare(v.scopes, name, typ, id, Get(node.atributos, "linea", Algun(0))) IN
      con_declaracion(Anota([v EXCEPT !.scopes = r.scopes], "declare", id, node, name,
                            OrVacio(r.err)),
                      r.err, node, id)

\* a _visit_deportista that drops the message declare returns
visit_deportista_sin_error(v, node, id) ==
    LET name == Get(node.atributos, "nombre", Algun(node.contenido))
        r == declare(v.scopes, name, "entity:Deportista", id,
                     Get(node.atributos, "linea", Algun(0)))
    IN  decorate(Anota([v EXCEPT !.scopes = r.scopes], "declare", id, node, name,
                       OrVacio(r.err)),
                 id, node, [definicion |-> name, tipo |-> "entity:Deportista"])

\* Verifier._visit_deportista
visit_deportista(v, node, id) ==
    decorate(declarar(v, Get(node.atributos, "nombre", Algun(node.contenido)),
                      "entity:Deportista", node, id),
             id, node,
             [definicion |-> Get(node.atributos, "nombre", Algun(node.contenido)),
              tipo |-> "entity:Deportista"])

\* Verifier._visit_cargadeportistas, before the children
visit_cargadeportistas(v, node, id) ==
    decorate(v, id, node,
             [tipo |-> "list:Deportista",
              cantidad |-> Len(Get(node.atributos, "deportistas", <<>>))])

\* node.atributos.get('tipo') or 'unknown'
lista_tipo(node) ==
    IF Truthy(Get(node.atributos, "tipo", None))
    THEN Valor(Get(node.atributos, "tipo", None)) ELSE "unknown"

\* Verifier._visit_lista, before the children
visit_lista(v, node, id) ==
    decorate(IF Truthy(Get(node.atributos, "nombre", None))
             THEN declarar(v, Get(node.atributos, "nombre", None),
                           "list:" \o lista_tipo(node), node, id)
             ELSE v,
             id, node,
             [tipo |-> "list:" \o lista_tipo(node),
              nombre |-> Get(node.atributos, "nombre", None)])

\* a use that is never reported
uso_sin_denuncia(v, node, id, a, falta) == v

\* if not self._in_error_context(): self._identificador_no_declarado(a, node)
uso_no_declarado(v, node, id, a, falta) ==
    IF falta /\ ~in_error_context(v) THEN identificador_no_declarado(v, a, node, id) ELSE v

\* _visit_narrar: one iteration of for a in args
narrar_uso(v, node, id, a) ==
    uso_no_declarado(Anota(v, "uso", id, node, a, resolve_arg_type(v.scopes, a)), node, id, a,
                     /\ resolve_arg_type(v.scopes, a) = "unknown"
                     /\ EsTexto(a)
                     /\ ~ConEspacio(Valor(a))
                     /\ ~ComillaDoble(Valor(a))
                     /\ ~isdigit(Valor(a)))

RECURSIVE narrar_usos(_, _, _, _)
narrar_usos(v, node, id, args) ==
    IF args = <<>> THEN v
    ELSE narrar_usos(narrar_uso(v, node, id, Head(args)), node, id, Tail(args))

\* Verifier._visit_narrar, before the children
visit_narrar(v, node, id) ==
    decorate(narrar_usos(v, node, id, Get(node.atributos, "args", <<>>)), id, node,
             [tipo |-> "void",
              args_types |-> arg_types(v.scopes, Get(node.atributos, "args", <<>>))])

\* Verifier._visit_dirigir
visit_dirigir(v, node, id) ==
    decorate(v, id, node, [tipo |-> "input", args |-> Get(node.atributos, "args", <<>>)])

\* _visit_identificador: parent.hijos[idx - 1] is '.', parent.hijos[idx - 2] is
\* an Identificador; idx counts from 0, hijos from 1
tras_punto(padre, idx) ==
    /\ padre # NoNode
    /\ idx > 1
    /\ padre.hijos[idx].tipo = "Simbolo"
    /\ padre.hijos[idx].contenido = "."
    /\ padre.hijos[idx - 1].tipo = "Identificador"

\* the object of the pattern obj . method
objeto(padre, idx) == padre.hijos[idx - 1].contenido

\* name.lower() in ('agregar', 'append', 'add')
MetodosConocidos == {"agregar", "append", "add"}

\* _visit_identificador: the final lookup of the name itself
identificador_lookup(v, node, id) ==
    IF lookup(v.scopes, Algun(node.contenido)) = NoEntry
    THEN decorate(uso_no_declarado(Anota(v, "uso", id, node, Algun(node.contenido), "unknown"),
                                   node, id, Algun(node.contenido), TRUE),
                  id, node, [ref |-> None])
    ELSE decorate(Anota(v, "uso", id, node, Algun(node.contenido),
                        lookup(v.scopes, Algun(node.contenido)).type),
                  id, node, [ref |-> to_dict(lookup(v.scopes, Algun(node.contenido)))])

\* Verifier._visit_identificador
visit_identificador(v, node, id, padre, idx) ==
    IF /\ tras_punto(padre, idx)
       /\ lookup(v.scopes, Algun(objeto(padre, idx))) # NoEntry
       /\ EsLista(lookup(v.scopes, Algun(objeto(padre, idx))).type)
    THEN decorate(v, id, node, [method_of |-> objeto(padre, idx), is_method |-> TRUE])
    ELSE IF /\ Lower(node.contenido) \in MetodosConocidos
            /\ tras_punto(padre, idx)
            /\ lookup(v.scopes, Algun(objeto(padre, idx))) # NoEntry
    THEN decorate(v, id, node, [method_of |-> objeto(padre, idx), is_method |-> TRUE,
                                method_name |-> node.contenido])
    ELSE identificador_lookup(v, node, id)

\* _visit_invocacion: the arity check of a builtin
AridadMsg(name, esperado, encontrado) ==
    "Llamada a " \o name \o " con aridad incorrecta: esperado " \o ToString(esperado)
        \o ", encontrado " \o ToString(encontrado)

\* an arity check that reports only missing arguments
aridad_solo_faltan(v, node, id, b, args) ==
    IF b.args # None /\ Len(args) < Valor(b.args)
    THEN add_error(v, AridadMsg(node.contenido, Valor(b.args), Len(args)), node, id)
    ELSE v

aridad(v, node, id, b, args) ==
    IF b.args # None /\ Len(args) # Valor(b.args)
    THEN add_error(v, AridadMsg(node.contenido, Valor(b.args), Len(args)), node, id)
    ELSE v

\* _visit_invocacion: comparar requires entity arguments
EntidadMsg(i, t) ==
    "Argumento " \o ToString(i) \o " de Comparar debe ser una entidad; encontrado '"
        \o t \o "'"

RECURSIVE comparar_args(_, _, _, _, _)
comparar_args(v, node, id, args, i) ==
    IF i > Len(args) THEN v
    ELSE comparar_args(
             IF EsEntidad(resolve_arg_type(v.scopes, args[i]))
             THEN Anota(v, "uso", id, node, args[i], resolve_arg_type(v.scopes, args[i]))
             ELSE add_error(Anota(v, "uso", id, node, args[i],
                                  resolve_arg_type(v.scopes, args[i])),
                            EntidadMsg(i, resolve_arg_type(v.scopes, args[i])), node, id),
             node, id, args, i + 1)

\* _visit_invocacion: the arguments of an invocation that is not a builtin
RECURSIVE generica_args(_, _, _, _)
generica_args(v, node, id, args) ==
    IF args = <<>> THEN v
    ELSE generica_args(
             uso_no_declarado(
                 Anota(v, "uso", id, node, Head(args), resolve_arg_type(v.scopes, Head(args))),
                 node, id, Head(args),
                 /\ resolve_arg_type(v.scopes, Head(args)) = "unknown"
                 /\ EsTexto(Head(args))
                 /\ ~ComillaDoble(Valor(Head(args)))
                 /\ ~isdigit(Valor(Head(args)))),
             node, id, Tail(args))

\* _visit_invocacion: a builtin b
invocacion_builtin(v, node, id, b, args) ==
    decorate(IF Lower(node.contenido) = "comparar"
             THEN comparar_args(aridad(v, node, id, b, args), node, id, args, 1)
             ELSE aridad(v, node, id, b, args),
             id, node,
             [tipo |-> b.ret, name |-> node.contenido, args |-> args,
              arg_types |-> arg_types(v.scopes, args)])

\* Verifier._visit_invocacion, before the children
visit_invocacion(v, node, id) ==
    IF Lower(node.contenido) \in DOMAIN builtins
    THEN invocacion_builtin(v, node, id, builtins[Lower(node.contenido)],
                            Get(node.atributos, "args", <<>>))
    ELSE decorate(generica_args(v, node, id, Get(node.atributos, "args", <<>>)), id, node,
                  [tipo |-> "unknown_call", name |-> node.contenido,
                   args |-> Get(node.atributos, "args", <<>>),
                   arg_types |-> arg_types(v.scopes, Get(node.atributos, "args", <<>>))])

\* Verifier._visit_condicional / _visit_repetir / _visit_repetirhasta, before
\* the children
visit_condicional(v, node, id) == decorate(v, id, node, [tipo |-> "condicional"])
visit_repetir(v, node, id) ==
    decorate(v, id, node, [tipo |-> "repetir", count |-> node.contenido])
visit_repetirhasta(v, node, id) ==
    decorate(v, id, node, [tipo |-> "repetir_hasta", condicion |-> node.contenido])

\* Verifier._visit_numero
visit_numero(v, node, id) ==
    decorate(v, id, node, [tipo |-> "int", valor |-> node.contenido])

\* a _visit_nombre that types the name as _resolve_arg_type types an argument
visit_nombre_por_argumento(v, node, id) ==
    decorate(Anota(v, "uso", id, node, Algun(node.contenido),
                   resolve_arg_type(v.scopes, Algun(node.contenido))),
             id, node,
             [tipo |-> resolve_arg_type(v.scopes, Algun(node.contenido)), ref |-> None])

\* Verifier._visit_nombre
visit_nombre(v, node, id) ==
    IF lookup(v.scopes, Algun(node.contenido)) # NoEntry
    THEN decorate(Anota(v, "uso", id, node, Algun(node.contenido),
                        lookup(v.scopes, Algun(node.contenido)).type),
                  id, node,
                  [tipo |-> lookup(v.scopes, Algun(node.contenido)).type,
                   ref |-> to_dict(lookup(v.scopes, Algun(node.contenido)))])
    ELSE uso_no_declarado(
             decorate(Anota(v, "uso", id, node, Algun(node.contenido), "unknown"),
                      id, node, [tipo |-> "unknown", ref |-> None]),
             node, id, Algun(node.contenido), TRUE)

\* Verifier._infer_type_from_node
infer_type_from_node(v, node, id) ==
    IF id \in DOMAIN v.decorations /\ "tipo" \in DOMAIN v.decorations[id]
    THEN v.decorations[id].tipo
    ELSE IF node.tipo = "Numero" THEN "int"
    ELSE IF node.tipo = "Nombre" /\ lookup(v.scopes, Algun(node.contenido)) # NoEntry
    THEN lookup(v.scopes, Algun(node.contenido)).type
    ELSE "unknown"

\* the test without the mirrored case
suma_texto_numero_izquierda(op, lt, rt) ==
    op = "+" /\ lt = "string" /\ rt = "int"

\* _visit_binaryop: op == '+' and one operand string, the other int
suma_texto_numero(op, lt, rt) ==
    op = "+" /\ ((lt = "string" /\ rt = "int") \/ (lt = "int" /\ rt = "string"))

\* _visit_binaryop: the type of the result
binaryop_tipo(op, lt, rt) ==
    IF lt = "int" /\ rt = "int" /\ op \in {"+", "-", "*", "/", "%"} THEN "int"
    ELSE IF lt = "string" /\ rt = "string" /\ op = "+" THEN "string"
    ELSE "unknown"

\* _visit_binaryop after the operands were visited, lt and rt their types
binaryop_decorar(v, node, id, lt, rt) ==
    decorate(IF suma_texto_numero(node.contenido, lt, rt)
             THEN add_error(v, "No se puede sumar texto con número", node, id)
             ELSE v,
             id, node,
             [tipo |-> binaryop_tipo(node.contenido, lt, rt), op |-> node.contenido,
              left |-> lt, right |-> rt])

\* a _visit_resultado that never reports the first number
visit_resultado_sin_primero(v, node, id, valores) ==
    IF Len(valores) # 2
    THEN decorate(add_error(v, "Resultado requiere dos números", node, id), id, node,
                  [tipo |-> "resultado", valores |-> valores, completo |-> FALSE])
    ELSE decorate(
             IF valores[2] = None
             THEN add_error(v, "Resultado incompleto: falta segundo número", node, id)
             ELSE v,
             id, node,
             [tipo |-> "resultado", valores |-> valores,
              completo |-> (valores[1] # None /\ valores[2] # None)])

\* Verifier._visit_resultado
visit_resultado_valores(v, node, id, valores) ==
    IF Len(valores) # 2
    THEN decorate(add_error(v, "Resultado requiere dos números", node, id), id, node,
                  [tipo |-> "resultado", valores |-> valores, completo |-> FALSE])
    ELSE decorate(
             IF valores[2] = None
             THEN add_error(
                      IF valores[1] = None
                      THEN add_error(v, "Resultado incompleto: falta primer número", node, id)
                      ELSE v,
                      "Resultado incompleto: falta segundo número", node, id)
             ELSE IF valores[1] = None
             THEN add_error(v, "Resultado incompleto: falta primer número", node, id)
             ELSE v,
             id, node,
             [tipo |-> "resultado", valores |-> valores,
              completo |-> (valores[1] # None /\ valores[2] # None)])

visit_resultado(v, node, id) ==
    visit_resultado_valores(v, node, id, Get(node.atributos, "valores", <<>>))

\* Verifier._visit_resultadoextra / _visit_empate / _visit_accionstub
visit_resultadoextra(v, node, id) == decorate(v, id, node, [tipo |-> "resultado_extra"])
visit_empate(v, node, id) == decorate(v, id, node, [tipo |-> "empate"])
visit_accionstub(v, node, id) ==
    decorate(v, id, node, [tipo |-> "accion_stub", nombre |-> node.contenido])

\* Verifier._visit_partido, before the children
visit_partido(v, node, id) ==
    decorate(IF ~Truthy(Get(node.atributos, "paisA", None))
                \/ ~Truthy(Get(node.atributos, "paisB", None))
             THEN add_error(v, "Partido requiere ambos países", node, id)
             ELSE v,
             id, node,
             [tipo |-> "partido", paisA |-> Get(node.atributos, "paisA", None),
              paisB |-> Get(node.atributos, "paisB", None)])

\* Verifier._visit_carrera / _visit_rutina / _visit_combate, before the children
visit_carrera(v, node, id) == decorate(v, id, node, [tipo |-> "carrera"])
visit_rutina(v, node, id) == decorate(v, id, node, [tipo |-> "rutina"])
visit_combate(v, node, id) == decorate(v, id, node, [tipo |-> "combate"])

\* getattr(self, f"_visit_{node.tipo.lower()}", None): the visitor of a node
\* kind, "" where the Verifier has none
Visitantes ==
    {"deportista", "cargadeportistas", "lista", "narrar", "dirigir", "identificador",
     "invocacion", "condicional", "repetir", "repetirhasta", "binaryop", "numero",
     "nombre", "resultado", "resultadoextra", "empate", "accionstub", "partido",
     "carrera", "rutina", "combate"}

metodo(tipo) == IF Lower(tipo) \in Visitantes THEN Lower(tipo) ELSE ""

\* the kinds with Sino among them
CompuestosConSino == {"Condicional", "Repetir", "RepetirHasta", "Sino"}

\* _visit: the kinds of node that open a scope
Compuestos == {"Condicional", "Repetir", "RepetirHasta"}

\* the visitors that call _default_visit or loop over node.hijos
Descienden ==
    {"", "cargadeportistas", "lista", "narrar", "invocacion", "condicional",
     "repetir", "repetirhasta", "accionstub", "partido", "carrera", "rutina", "combate"}

\* the visitors that look at the Resultado child after the children
Competencias == {"partido", "carrera", "rutina", "combate"}

\* the number of nodes of a tree: a node is identified by its position in
\* the pre-order of the tree, the root at 0
RECURSIVE Tam(_), TamSeq(_)
Tam(node) == 1 + TamSeq(node.hijos)
TamSeq(hs) == IF hs = <<>> THEN 0 ELSE Tam(Head(hs)) + TamSeq(Tail(hs))

\* id(node.hijos[i - 1]) for the node numbered id
IdHijo(node, id, i) == id + 1 + TamSeq(SubSeq(node.hijos, 1, i - 1))

\* What is left to do in a pass: a call of _visit ("visit"), or the rest of
\* one after the children ("binaryop", "competencia", "salir").
Task(k, node, padre, idx, id) ==
    [k |-> k, nodo |-> node, padre |-> padre, idx |-> idx, id |-> id]

\* for i, c in enumerate(node.hijos): self._visit(c, node, i)
default_visit(node, id) ==
    [i \in 1..Len(node.hijos) |->
        Task("visit", node.hijos[i], node, i - 1, IdHijo(node, id, i))]

\* a _visit_binaryop that visits every child again after the operands
binaryop_visit_y_hijos(node, id) ==
    IF Len(node.hijos) >= 2
    THEN <<Task("visit", node.hijos[1], NoNode, 0, IdHijo(node, id, 1)),
           Task("visit", node.hijos[2], NoNode, 0, IdHijo(node, id, 2)),
           Task("binaryop", node, NoNode, 0, id)>> \o default_visit(node, id)
    ELSE default_visit(node, id)

\* _visit_binaryop: self._visit(left); self._visit(right), then the rest
binaryop_visit(node, id) ==
    IF Len(node.hijos) >= 2
    THEN <<Task("visit", node.hijos[1], NoNode, 0, IdHijo(node, id, 1)),
           Task("visit", node.hijos[2], NoNode, 0, IdHijo(node, id, 2)),
           Task("binaryop", node, NoNode, 0, id)>>
    ELSE default_visit(node, id)

\* _visit, lines 79-84: enter_scope for a compound node, the error context
visit_entrar(v, node, id) ==
    Anota(IF node.tipo \in Compuestos
          THEN Anota([v EXCEPT !.scopes = enter_scope(@)], "enter_scope", id, node, None, "")
          ELSE IF node.tipo = "ErrorSintactico"
          THEN [v EXCEPT !.error_context_stack = Append(@, TRUE)]
          ELSE v,
          "visit", id, node, Algun(node.contenido), "")

\* _visit, lines 85-89: the visitor of the node, up to its children
visit_metodo(v, t) ==
    CASE metodo(t.nodo.tipo) = "deportista" -> visit_deportista(v, t.nodo, t.id)
      [] metodo(t.nodo.tipo) = "cargadeportistas" -> visit_cargadeportistas(v, t.nodo, t.id)
      [] metodo(t.nodo.tipo) = "lista" -> visit_lista(v, t.nodo, t.id)
      [] metodo(t.nodo.tipo) = "narrar" -> visit_narrar(v, t.nodo, t.id)
      [] metodo(t.nodo.tipo) = "dirigir" -> visit_dirigir(v, t.nodo, t.id)
      [] metodo(t.nodo.tipo) = "identificador" ->
             visit_identificador(v, t.nodo, t.id, t.padre, t.idx)
      [] metodo(t.nodo.tipo) = "invocacion" -> visit_invocacion(v, t.nodo, t.id)
      [] metodo(t.nodo.tipo) = "condicional" -> visit_condicional(v, t.nodo, t.id)
      [] metodo(t.nodo.tipo) = "repetir" -> visit_repetir(v, t.nodo, t.id)
      [] metodo(t.nodo.tipo) = "repetirhasta" -> visit_repetirhasta(v, t.nodo, t.id)
      [] metodo(t.nodo.tipo) = "numero" -> visit_numero(v, t.nodo, t.id)
      [] metodo(t.nodo.tipo) = "nombre" -> visit_nombre(v, t.nodo, t.id)
      [] metodo(t.nodo.tipo) = "resultado" -> visit_resultado(v, t.nodo, t.id)
      [] metodo(t.nodo.tipo) = "resultadoextra" -> visit_resultadoextra(v, t.nodo, t.id)
      [] metodo(t.nodo.tipo) = "empate" -> visit_empate(v, t.nodo, t.id)
      [] metodo(t.nodo.tipo) = "accionstub" -> visit_accionstub(v, t.nodo, t.id)
      [] metodo(t.nodo.tipo) = "partido" -> visit_partido(v, t.nodo, t.id)
      [] metodo(t.nodo.tipo) = "carrera" -> visit_carrera(v, t.nodo, t.id)
      [] metodo(t.nodo.tipo) = "rutina" -> visit_rutina(v, t.nodo, t.id)
      [] metodo(t.nodo.tipo) = "combate" -> visit_combate(v, t.nodo, t.id)
      [] OTHER -> v

\* the calls of _visit the visitor makes, then what it does after them, then
\* lines 92-97 of _visit
siguientes(t) ==
    (IF metodo(t.nodo.tipo) = "binaryop" THEN binaryop_visit(t.nodo, t.id)
     ELSE IF metodo(t.nodo.tipo) \in Descienden THEN default_visit(t.nodo, t.id)
     ELSE <<>>)
    \o (IF metodo(t.nodo.tipo) \in Competencias
        THEN <<Task("competencia", t.nodo, NoNode, 0, t.id)>> ELSE <<>>)
    \o (IF t.nodo.tipo \in Compuestos \/ t.nodo.tipo = "ErrorSintactico"
        THEN <<Task("salir", t.nodo, NoNode, 0, t.id)>> ELSE <<>>)

\* Verifier._visit up to the first call it makes on a child
visit(v, t) == visit_metodo(visit_entrar(v, t.nodo, t.id), t)

\* the end of _visit without the exit_scope of a compound node
salir_sin_exit(v, node, id) ==
    IF node.tipo \in Compuestos
    THEN Anota(v, "exit_scope", id, node, None, "")
    ELSE IF node.tipo = "ErrorSintactico" /\ v.error_context_stack # <<>>
    THEN [v EXCEPT !.error_context_stack = SubSeq(@, 1, Len(@) - 1)]
    ELSE v

\* _visit, lines 92-97: exit_scope for a compound node, the error context
salir(v, node, id) ==
    IF node.tipo \in Compuestos
    THEN Anota([v EXCEPT !.scopes = exit_scope(@)], "exit_scope", id, node, None, "")
    ELSE IF node.tipo = "ErrorSintactico" /\ v.error_context_stack # <<>>
    THEN [v EXCEPT !.error_context_stack = SubSeq(@, 1, Len(@) - 1)]
    ELSE v

\* _visit_binaryop, lines 281-294
binaryop_post(v, node, id) ==
    binaryop_decorar(v, node, id,
                     infer_type_from_node(v, node.hijos[1], IdHijo(node, id, 1)),
                     infer_type_from_node(v, node.hijos[2], IdHijo(node, id, 2)))

\* resultado_detectado: the last child of kind Resultado, 0 if none
resultado_detectado(node) ==
    IF \E i \in 1..Len(node.hijos) : node.hijos[i].tipo = "Resultado"
    THEN CHOOSE i \in 1..Len(node.hijos) :
           /\ node.hijos[i].tipo = "Resultado"
           /\ \A j \in (i + 1)..Len(node.hijos) : node.hijos[j].tipo # "Resultado"
    ELSE 0

\* the name each of _visit_partido, _visit_carrera, _visit_rutina and
\* _visit_combate writes in its message
NombreDeCompetencia ==
    [partido |-> "Partido", carrera |-> "Carrera", rutina |-> "Rutina",
     combate |-> "Combate"]

CierreMsg(nombre) ==
    "Resultado en " \o nombre \o " antes de cierre está incompleto (segundo número faltante)"

\* _visit_partido / _visit_carrera / _visit_rutina / _visit_combate after the
\* children; valores[1] of a list shorter than two raises IndexError
competencia_tras(v, node, id, i, valores) ==
    IF Len(valores) < 2 THEN [v EXCEPT !.excepcion = "IndexError"]
    ELSE IF valores[2] = None
    THEN add_error(v, CierreMsg(NombreDeCompetencia[metodo(node.tipo)]), node.hijos[i],
                   IdHijo(node, id, i))
    ELSE v

competencia_post(v, node, id) ==
    IF resultado_detectado(node) = 0 THEN v
    ELSE competencia_tras(v, node, id, resultado_detectado(node),
                          Get(node.hijos[resultado_detectado(node)].atributos, "valores",
                              <<None, None>>))

\* {} : no decorations
NoDecorations == [n \in {} |-> None]

\* Verifier.__init__ apart from the table
NewVerifier ==
    [estado |-> "idle", errors |-> <<>>, decorations |-> NoDecorations,
     snapshots |-> <<>>, error_context_stack |-> <<>>, pila |-> <<>>, traza |-> <<>>]

\* No verification pass.
VerifIdle == vf = NewVerifier

(***************************************************************************)
(* SpecSync: synchronize run one loop iteration per step, on streams long  *)
(* enough to reach max_steps.                                              *)
(***************************************************************************)

\* Bound: the run lengths tried are 0..Slack and max_steps-Slack..max_steps+Slack.
Slack == 2

FillCounts == (0..Slack) \cup ((max_steps - Slack)..(max_steps + Slack))

\* A token that is no anchor on the line where recovery starts.
Filler == Tok("NUMERO_ENTERO", "1", 1, 0)

\* The tokens tried after the run: anchors of each kind, and tokens that are
\* anchors only on another line.
AfterRun ==
    {Tok("DECLARACION_ENTIDAD", "Deportista", 1, 0),
     Tok("ESTRUCTURA_CONTROL_FLUJO", "si", 1, 0),
     Tok("PALABRA_CLAVE", "finact", 2, 0),
     Tok("INVOCACION_FUNCION", "narrar(", 1, 0),
     Tok("INVOCACION_FUNCION", "narrar(", 2, 0),
     Tok("SIMBOLO_PUNTUACION", "}", 1, 0),
     Tok("SIMBOLO_PUNTUACION", ",", 1, 0),
     Tok("NOMBRE_IDENTIFICADOR", "input", 1, 0),
     Tok("NOMBRE_IDENTIFICADOR", "input", 2, 0)}

\* What follows that token.
Trailers == {<<>>, <<Filler>>, <<Filler, Tok("PALABRA_CLAVE", "finact", 3, 0)>>}

SyncStreams ==
    {[i \in 1..k |-> Filler] \o <<a>> \o tr : k \in FillCounts, a \in AfterRun, tr \in Trailers}
    \cup {[i \in 1..k |-> Filler] : k \in FillCounts}

\* No activation of synchronize.
SyncIdle == sy = [fase |-> "idle", start_pos |-> 0, steps |-> 0]

\* The parser outside a parse.
ParserIdle ==
    /\ tokens = <<>>
    /\ pos = 0
    /\ errors = <<>>
    /\ error_keys = {}
    /\ stack = <<>>
    /\ raiz = NoNode
    /\ log = <<>>
    /\ last = NoLast

InitSync ==
    /\ tokens \in SyncStreams
    /\ pos \in {0, 1}
    /\ pos <= Len(tokens)
    /\ sy = [fase |-> "call", start_pos |-> pos, steps |-> 0]
    /\ errors = <<>>
    /\ error_keys = {}
    /\ stack = <<>>
    /\ raiz = NoNode
    /\ log = <<>>
    /\ last = NoLast
    /\ TableIdle
    /\ VerifIdle

\* if not self.peek(): return; start_line = ...; steps = 0
SyncEnter ==
    /\ sy.fase = "call"
    /\ sy' = IF ~HasTok(pos) THEN [sy EXCEPT !.fase = "done"]
             ELSE [fase |-> "loop", start_pos |-> sy.start_pos,
                   start_line |-> peek(pos).linea, steps |-> 0]
    /\ UNCHANGED <<tokens, pos, parserRest, tableVars, verifVars>>

\* one evaluation of the while condition and of the loop body
SyncStep ==
    /\ sy.fase = "loop"
    /\ IF SyncLoopCond(pos, sy.steps) /\ ~IsAnchor(peek(pos), sy.start_line)
       THEN /\ pos' = pos + 1
            /\ sy' = [sy EXCEPT !.steps = @ + 1]
       ELSE /\ pos' = pos
            /\ sy' = [sy EXCEPT !.fase = "limit"]
    /\ UNCHANGED <<tokens, parserRest, tableVars, verifVars>>

\* if steps >= max_steps: while self.peek(): self.pos += 1
SyncLimit ==
    /\ sy.fase = "limit"
    /\ pos' = IF SyncLimitReached(sy.steps) THEN Len(tokens) ELSE pos
    /\ sy' = [sy EXCEPT !.fase = "done"]
    /\ UNCHANGED <<tokens, parserRest, tableVars, verifVars>>

NextSync ==
    \/ SyncEnter
    \/ SyncStep
    \/ SyncLimit

SpecSync == InitSync /\ [][NextSync]_vars

(***************************************************************************)
(* SpecTable: the symbol table under arbitrary sequences of its operations *)
(***************************************************************************)

InitTable ==
    /\ TableIdle
    /\ ParserIdle
    /\ SyncIdle
    /\ VerifIdle

EnterScope ==
    /\ current_level(scopes) < MaxDepth
    /\ scopes' = enter_scope(scopes)
    /\ st' = Call("enter_scope", None, None, current_level(scopes'), NoErr, NoEntry)
    /\ UNCHANGED <<parserVars, syncVars, verifVars>>

ExitScope ==
    /\ scopes' = exit_scope(scopes)
    /\ st' = Call("exit_scope", None, None, current_level(scopes'), NoErr, NoEntry)
    /\ UNCHANGED <<parserVars, syncVars, verifVars>>

\* self.scopes[-1] of an empty list raises IndexError: no step
Declare ==
    /\ Len(scopes) >= 1
    /\ \E name \in Names, typ \in Types :
         LET r == declare(scopes, Algun(name), typ, DeclNode, Algun(DeclLine)) IN
           /\ scopes' = r.scopes
           /\ st' = Call("declare", Algun(name), Algun(typ), current_level(scopes), r.err,
                        NoEntry)
    /\ UNCHANGED <<parserVars, syncVars, verifVars>>

Lookup ==
    \E name \in Names :
      /\ st' = Call("lookup", Algun(name), None, current_level(scopes), NoErr,
                   lookup(scopes, Algun(name)))
      /\ UNCHANGED <<scopes, parserVars, syncVars, verifVars>>

NextTable ==
    \/ EnterScope
    \/ ExitScope
    \/ Declare
    \/ Lookup

SpecTable == InitTable /\ [][NextTable]_vars

(***************************************************************************)
(*            Spec : parse_from_tokens on a token stream                   *)
(***************************************************************************)

\* Bound: longest stream of the streams enumerated exhaustively.
MaxLen == 3

\* (category, lexeme) pairs, as the scanner classifies the lexemes
Decl(t) == <<"DECLARACION_ENTIDAD", t>>
Nom(t) == <<"NOMBRE_IDENTIFICADOR", t>>
Num(t) == <<"NUMERO_ENTERO", t>>
Ctl(t) == <<"ESTRUCTURA_CONTROL_FLUJO", t>>
Clave(t) == <<"PALABRA_CLAVE", t>>
Sim(t) == <<"SIMBOLO_PUNTUACION", t>>
Inv(t) == <<"INVOCACION_FUNCION", t>>
Dato(t) == <<"TIPO_DATO_DOMINIO", t>>
Cmp(t) == <<"OPERADOR_COMPARACION", t>>
Ari(t) == <<"OPERADOR_ARITMETICO", t>>
Vs == <<"OPERADOR_ESPECIAL", "vs">>
Empate == <<"CONDICION_EMPATE", "empate">>
ListaRes == <<"RESULTADO_ADICIONAL", "listaRes">>

\* The pairs the short streams are made of.
Core ==
    {Decl("Lista"), Decl("Deportista"), Nom("X"), Num("1"), Empate, Vs,
     Dato("Resultado"), Ctl("si"), Clave("finact"), Sim("}")}

RECURSIVE SeqsUpTo(_, _)
SeqsUpTo(S, n) ==
    IF n = 0 THEN {<<>>}
    ELSE LET shorter == SeqsUpTo(S, n - 1) IN
           shorter \cup {Append(s, x) : s \in {t \in shorter : Len(t) = n - 1}, x \in S}

\* Programs of the language, well formed and not.
Programs ==
    { <<Decl("Lista"), Decl("Deportista"), Nom("X"), Num("1"), Num("2"), Num("3"),
        Nom("Sport"), Nom("Country")>>,
      <<Decl("Lista"), Decl("Deportista"), Nom("X"), Num("1"), Num("2"), Sim("}")>>,
      <<Decl("Lista"), Nom("P"), Nom("X"), Decl("Lista"), Decl("Deportista"), Num("1")>>,
      <<Decl("Deportista"), Nom("X"), Num("1"), Num("2"), Num("3"), Nom("Sport"),
        Nom("Country"), Decl("Deportista"), Nom("X"), Ctl("si")>>,
      <<Nom("A"), Vs, Nom("B"), Empate, Empate, Dato("Resultado"), Num("1"), Sim("-"),
        Num("2"), Clave("finact")>>,
      <<Nom("A"), Vs, Nom("B"), Clave("preparacion"), Dato("Resultado"), Num("1"),
        Sim("-"), Num("2"), ListaRes, Empate, Clave("finact"), Nom("X")>>,
      <<Nom("A"), Vs, Nom("B"), Dato("Resultado"), Num("1"), Ari("-"), Num("2"),
        Empate, Empate, Clave("finact")>>,
      <<Clave("InicioCarrera"), Clave("correr"), Dato("Resultado"), Num("1"), Sim("-"),
        Num("2"), ListaRes, ListaRes, Clave("finCarr")>>,
      <<Clave("InicioRutina"), Clave("ejecutar"), Nom("A"), Vs, Nom("B"),
        Clave("finact"), Clave("finRuti")>>,
      <<Clave("InicioCombate"), Nom("X"), Dato("Resultado"), Num("1"), Sim("-"),
        Num("2"), Clave("finComb")>>,
      <<Clave("competencia_oficial"), Nom("X"), Inv("narrar("), Nom("X"), Sim(")"),
        Clave("finact"), Clave("finprep")>>,
      <<Ctl("si"), Nom("X"), Cmp(">"), Num("1"), Ctl("entonces"), Sim("{"),
        Inv("narrar("), Nom("X"), Sim(")"), Ctl("sino"), Sim("{"), Nom("A"), Sim("}"),
        Sim("}"), Ctl("endif")>>,
      <<Ctl("si"), Nom("X"), Sim("{"), Nom("A"), Sim("}"), Ctl("endif")>>,
      <<Ctl("Repetir"), Sim("("), Num("3"), Sim(")"), Sim("["), Ctl("si"), Num("1"),
        Ctl("entonces"), Sim("{"), Sim("}"), Ctl("endif"), Sim("]"), Ctl("FinRep")>>,
      <<Ctl("RepetirHasta"), Sim("("), Nom("X"), Ari("+"), Num("1"), Cmp("<"), Num("3"),
        Sim(")"), Sim("["), Inv("input("), Nom("X"), Sim(","), Nom("A"), Sim(")"),
        Sim("]"), Ctl("FinRepHast")>>,
      <<<<"COMENTARIO", "; nota">>, Inv("narrar("), Num("1"), Sim(")"),
        Inv("Comparar("), Nom("A"), Sim(","), Nom("B"), Sim(")"), Dato("Pais"),
        Ctl("entonces"), Sim(";")>> }

Prefixes(s) == {SubSeq(s, 1, k) : k \in 0..Len(s)}

\* The streams the parser is run on, as (category, lexeme) pairs.
Streams == SeqsUpTo(Core, MaxLen) \cup UNION {Prefixes(s) : s \in Programs}

\* Where the scanner found the tokens: all on line 1, or one per line.
Layouts == {"una_linea", "por_linea"}

\* The stream s laid out: line from 1, column = position in the line + 1.
Layout(l, s) ==
    [i \in 1..Len(s) |->
        IF l = "una_linea" THEN Tok(s[i][1], s[i][2], 1, 2 * i - 1)
        ELSE Tok(s[i][1], s[i][2], i, 1)]

\* The innermost production in progress and the parser state a step starts in.
Top == stack[Len(stack)]
Cur == PS(pos, errors, error_keys, <<>>)
InProc(proc) == stack # <<>> /\ Top.proc = proc

\* parse_from_tokens: Parser(tokens), then parse_program is entered.
Init ==
    /\ \E l \in Layouts, s \in Streams : tokens = Layout(l, s)
    /\ pos = 0
    /\ errors = <<>>
    /\ error_keys = {}
    /\ stack = <<ProgramFrame>>
    /\ raiz = NoNode
    /\ log = <<>>
    /\ last = NoLast
    /\ SyncIdle
    /\ TableIdle
    /\ VerifIdle

\* The effect of one loop iteration r of the production on top of the stack.
Apply(r) ==
    /\ pos' = r.ps.pos
    /\ errors' = r.ps.errors
    /\ error_keys' = r.ps.keys
    /\ log' = r.ps.log
    /\ last' = IF r.nodo # NoNode
               THEN [desde |-> r.desde, hasta |-> r.ps.pos, nodo |-> r.nodo,
                     e0 |-> r.e0, e1 |-> Len(r.ps.errors)]
               ELSE NoLast
    /\ stack' = IF r.mode = "stay"
                THEN [stack EXCEPT ![Len(stack)] = r.frame]
                ELSE IF r.mode = "push"
                THEN Append([stack EXCEPT ![Len(stack)] = r.frame], r.push)
                ELSE [SubSeq(stack, 1, Len(stack) - 1) EXCEPT
                         ![Len(stack) - 1] = AddChild(@, r.nodo)]
    /\ UNCHANGED <<tokens, raiz, syncVars, tableVars, verifVars>>

\* parse_program: one iteration of while self.peek()
ParseProgram ==
    /\ InProc("program")
    /\ HasTok(pos)
    /\ parse_comando(Cur).kind # "none"
    /\ Apply(comando(Top, Cur))

\* parse_program returns raiz and parse_from_tokens attaches parser.errors
ParseFromTokens ==
    /\ InProc("program")
    /\ ~HasTok(pos) \/ parse_comando(Cur).kind = "none"
    /\ raiz' = Node("Programa", "root", [parser_errors |-> errors], Top.hijos)
    /\ stack' = <<>>
    /\ log' = <<>>
    /\ last' = NoLast
    /\ UNCHANGED <<tokens, pos, errors, error_keys, syncVars, tableVars, verifVars>>

ParsePartido == InProc("partido") /\ Apply(partido_step(Top, Cur))
ParseCarrera == InProc("carrera") /\ Apply(carrera_step(Top, Cur))
ParseRutina == InProc("rutina") /\ Apply(rutina_step(Top, Cur))
ParseCombate == InProc("combate") /\ Apply(combate_step(Top, Cur))
ParseAccionStub == InProc("stub") /\ Apply(accion_stub_step(Top, Cur))
ParseCondicional == InProc("condicional") /\ Apply(condicional_step(Top, Cur))
ParseRepetir == InProc("repetir") /\ Apply(repetir_step(Top, Cur))
ParseRepetirHasta == InProc("repetir_hasta") /\ Apply(repetir_hasta_step(Top, Cur))

Next ==
    \/ ParseProgram
    \/ ParseFromTokens
    \/ ParsePartido
    \/ ParseCarrera
    \/ ParseRutina
    \/ ParseCombate
    \/ ParseAccionStub
    \/ ParseCondicional
    \/ ParseRepetir
    \/ ParseRepetirHasta

Spec == Init /\ [][Next]_vars

(***************************************************************************)
(*   SpecVerif : Verifier(asa).run() on the tree of a parsed program or    *)
(*   on a tree handed to it                                                *)
(***************************************************************************)

\* a list of texts, each in an optional slot
Textos(ts) == [i \in 1..Len(ts) |-> Algun(ts[i])]

\* The nodes the trees are made of, as the parser builds them.
Programa(hs) == Node("Programa", "root", [parser_errors |-> <<>>], hs)
NDeportista(n, l) ==
    Node("Deportista", n,
         [nombre |-> Algun(n), estadisticas |-> Textos(<<"1", "2", "3">>),
          deporte |-> Algun("Futbol"), pais |-> Algun("P"), linea |-> Algun(l)], <<>>)
NLista(n, l) ==
    Node("Lista", n, [tipo |-> Algun("Deportista"), nombre |-> Algun(n), linea |-> Algun(l)],
         <<>>)
NNarrar(args, l) == Node("Narrar", "narrar", [args |-> args, linea |-> Algun(l)], <<>>)
NDirigir(args, l) == Node("Dirigir", "input", [args |-> args, linea |-> Algun(l)], <<>>)
NInvocacion(name, args, l) == Node("Invocacion", name, [args |-> args, linea |-> Algun(l)], <<>>)
NIdentificador(n, l) == Node("Identificador", n, [linea |-> Algun(l)], <<>>)
NSimbolo(s, l) == Node("Simbolo", s, [linea |-> Algun(l)], <<>>)
NResultado(valores, l) ==
    Node("Resultado", "Resultado", [linea |-> Algun(l), valores |-> valores], <<>>)
NNumero(n, l) == Node("Numero", n, [linea |-> Algun(l)], <<>>)
NNombre(n, l) == Node("Nombre", n, [linea |-> Algun(l)], <<>>)
NBinaryOp(op, hs) == Node("BinaryOp", op, NoAttrs, hs)

\* Declarations and uses of the name X.
Basicos(l) ==
    {NDeportista("X", l), NLista("X", l), NNarrar(Textos(<<"X">>), l), NIdentificador("X", l),
     NInvocacion("foo", Textos(<<"X">>), l)}

\* The commands at line l.
Hojas(l) ==
    Basicos(l) \cup
    {NDeportista("A", l), NNarrar(Textos(<<"X", "A">>), l), NNarrar(Textos(<<"1", "\"hi\"">>), l),
     NInvocacion("Comparar", Textos(<<"X", "A">>), l), NInvocacion("Comparar", Textos(<<"X">>), l),
     NInvocacion("Comparar", Textos(<<"X", "1", "\"hi\"">>), l),
     NInvocacion("Comparar", <<>>, l),
     NInvocacion("input", Textos(<<"X", "A">>), l), NInvocacion("narrar", Textos(<<"X">>), l),
     NInvocacion("foo", Textos(<<"X", "1", "\"hi\"">>), l),
     NDirigir(Textos(<<"X">>), l), NDirigir(Textos(<<"X", "A">>), l), NDirigir(<<>>, l),
     NResultado(Textos(<<"1", "2">>), l), NResultado(<<Algun("1"), None>>, l),
     NResultado(<<None, Algun("2")>>, l), NResultado(<<None, None>>, l),
     NBinaryOp("+", <<NNumero("1", l), NNumero("2", l)>>),
     NBinaryOp("+", <<NNumero("1", l), NNombre("X", l)>>),
     NBinaryOp("+", <<NNombre("\"hi\"", l), NNumero("1", l)>>),
     NBinaryOp("<", <<NNumero("1", l), NNumero("2", l)>>),
     NBinaryOp("*", <<NBinaryOp("-", <<NNumero("1", l), NNumero("2", l)>>),
                     NNumero("3", l)>>),
     NBinaryOp("-", <<NNumero("1", l)>>)}

\* The nodes a command is put under.
Envolturas ==
    {"Condicional", "Repetir", "RepetirHasta", "Sino", "ErrorSintactico", "Carrera"}

Envolver(w, hs, l) ==
    CASE w = "Condicional" ->
             Node("Condicional", "si", [condicion |-> "X", linea |-> Algun(l)], hs)
      [] w = "Repetir" -> Node("Repetir", "3", NoAttrs, hs)
      [] w = "RepetirHasta" -> Node("RepetirHasta", "X", NoAttrs, hs)
      [] w = "Sino" ->
             Node("Condicional", "si", [condicion |-> "X", linea |-> Algun(l)],
                  <<Node("Sino", "", NoAttrs, hs)>>)
      [] w = "ErrorSintactico" -> Node("ErrorSintactico", "Lista", [linea |-> Algun(l)], hs)
      [] OTHER -> Node(w, "", [linea |-> Algun(l)], hs)

\* Competitions with and without a Resultado child.
Competiciones ==
    {Node(t, "", a, hs) :
        t \in {"Partido", "Carrera", "Rutina", "Combate"},
        a \in {[paisA |-> Algun("A"), paisB |-> Algun("B"), linea |-> Algun(1)],
               [paisA |-> None, paisB |-> Algun("B"), linea |-> Algun(1)]},
        hs \in {<<>>, <<NResultado(Textos(<<"1", "2">>), 2)>>,
                <<NResultado(<<Algun("1"), None>>, 2)>>,
                <<NResultado(<<None, Algun("2")>>, 2)>>,
                <<NResultado(<<None, None>>, 2), NResultado(Textos(<<"1", "2">>), 3)>>,
                <<Node("Empate", "empate", [linea |-> Algun(2)], <<>>),
                  NResultado(Textos(<<"1", "2">>), 3),
                  Node("ResultadoExtra", "listaRes", [linea |-> Algun(4)], <<>>)>>}}

\* The pattern obj . method after a declaration of obj or without one.
Metodos ==
    {<<d, NIdentificador("X", 2), NSimbolo(".", 2), NIdentificador(m, 2)>> :
        d \in {NLista("X", 1), NDeportista("X", 1), NDeportista("A", 1)},
        m \in {"agregar", "Agregar", "A", "B"}}

\* Kinds written in another letter case, names and arguments that are None,
\* arguments with blanks around them (the space, U+000B, U+001C, U+001F,
\* U+0085, U+00A0) and arguments made of the digits U+00B2, U+00B3, U+00B9.
OtrasGrafias ==
    {<<Node("narrar", "narrar", [args |-> Textos(<<"X">>), linea |-> Algun(1)], <<>>)>>,
     <<Node("DEPORTISTA", "X", [nombre |-> Algun("X"), linea |-> Algun(1)], <<>>), NNarrar(Textos(<<"X">>), 2)>>,
     <<Node("condicional", "si", [linea |-> Algun(1)], <<NDeportista("X", 2)>>),
       NNarrar(Textos(<<"X">>), 3)>>,
     <<Node("PARTIDO", "A vs B", [paisA |-> Algun("A"), paisB |-> Algun("B"), linea |-> Algun(1)],
            <<NResultado(<<Algun("1"), None>>, 2)>>)>>,
     <<Node("Deportista", "", [nombre |-> None, linea |-> Algun(1)], <<>>),
       Node("Deportista", "", [nombre |-> None, linea |-> Algun(2)], <<>>)>>,
     <<NDeportista("X", 1), NNarrar(<<Algun(" X "), None, Algun(" 1 ")>>, 2),
       NInvocacion("foo", <<None, Algun(" X")>>, 3)>>,
     <<NDeportista("X", 1), NNarrar(Textos(<<"X", "X ", "²", "A">>), 2),
       NInvocacion("foo", Textos(<<"³¹", "X", "A">>), 3)>>}

\* A Condicional with the command a in its body and the command b in its Sino.
Ramas(a, b, l) ==
    Node("Condicional", "si", [condicion |-> "X", linea |-> Algun(l)],
         <<a, Node("Sino", "", NoAttrs, <<b>>)>>)

\* The trees handed to the Verifier.
Trees ==
    {Programa(<<a, b>>) : a \in Hojas(1), b \in Hojas(2)}
    \cup {Programa(<<Envolver(w, <<a>>, 1), b>>) :
            w \in Envolturas, a \in Basicos(2), b \in Basicos(3)}
    \cup {Programa(<<a, Envolver(w, <<b>>, 2), c>>) :
            w \in Envolturas, a \in Basicos(1), b \in Basicos(3), c \in Basicos(4)}
    \cup {Programa(<<Envolver(w1, <<Envolver(w2, <<a>>, 2), b>>, 1), c>>) :
            w1 \in {"Condicional", "Repetir", "RepetirHasta"},
            w2 \in {"Condicional", "Repetir", "RepetirHasta"},
            a \in Basicos(3), b \in Basicos(4), c \in Basicos(5)}
    \cup {Programa(<<Ramas(a, b, 1), c>>) :
            a \in Basicos(2), b \in Basicos(3), c \in Basicos(4)}
    \cup {Programa(hs) : hs \in Metodos}
    \cup {Programa(hs) : hs \in OtrasGrafias}
    \cup {Programa(<<c>>) : c \in Competiciones}
    \cup {Programa(<<Node("AccionStub", "competencia_oficial", [linea |-> Algun(1)],
                         <<NIdentificador("X", 1)>>),
                    Node("CargaDeportistas", "Lista Deportista",
                         [deportistas |-> <<"X">>, linea |-> Algun(2)], <<>>)>>)}

\* AnalizadorLexico.patrones_reconocimiento: the categories whose pattern
\* matches the text '-', in the order the scanner tries them
PatronesDelGuion == <<"OPERADOR_ARITMETICO", "SIMBOLO_PUNTUACION">>

\* the token the scanner makes of '-': the first pattern that matches wins
GuionDelScanner == <<Head(PatronesDelGuion), "-">>

\* Resultado 1 - 2 as the scanner delivers it
ResultadoDelScanner == <<Dato("Resultado"), Num("1"), GuionDelScanner, Num("2")>>

\* Programs with the identifier None, with identifiers that are keywords up
\* to letter case, and with invocation tokens of other spellings.
LexemasRaros ==
    { <<Decl("Lista"), Nom("None"), Nom("L"), Inv("narrar("), Nom("L"), Sim(")")>>,
      <<Nom("None"), Vs, Nom("B"), Dato("Resultado"), Num("1"), GuionDelScanner, Num("2"),
        Clave("finact")>>,
      <<Nom("None")>>,
      <<Decl("Lista"), Decl("Deportista"), Nom("None"), Inv("narrar("), Nom("None"),
        Sim(")"), Nom("None"), Sim("."), Nom("Agregar")>>,
      <<Ctl("si"), Nom("X"), Cmp(">"), Num("1"), Ctl("entonces"), Sim("{"),
        Inv("narrar("), Nom("X"), Sim(")"), Nom("Sino"), Inv("narrar("), Nom("X"), Sim(")"),
        Sim("}"), Ctl("endif")>>,
      <<Clave("competencia_oficial"), Nom("X"), Nom("FinAct"), Nom("A"), Clave("finact")>>,
      <<Clave("InicioCarrera"), Clave("correr"), Dato("Resultado"), Num("10"),
        GuionDelScanner, Num("20"), Nom("Fincarr"), Clave("finCarr")>>,
      <<Inv("foo("), Nom("X"), Sim(")"), Inv("NARRAR("), Nom("X"), Sim(")"),
        Inv("inputs("), Nom("X"), Sim(")"), Inv("compararlo("), Nom("X"), Sim(")"),
        Inv("narrar"), Nom("X"), Sim(")")>> }

\* The programs parsed and then verified.
VerifPrograms ==
    { <<Decl("Deportista"), Nom("A"), Num("1"), Num("2"), Num("3"), Nom("Futbol"),
        Nom("P"), Inv("narrar("), Nom("A"), Sim(")")>>,
      <<Inv("narrar("), Nom("X"), Sim(")"), Decl("Deportista"), Nom("X"), Num("1"),
        Num("2"), Num("3"), Nom("Futbol"), Nom("P")>>,
      <<Ctl("si"), Nom("X"), Sim("{"), Nom("A"), Sim("}"), Ctl("endif"),
        Inv("narrar("), Nom("X"), Sim(")")>>,
      <<Ctl("si"), Nom("X"), Ctl("entonces"), Sim("{"), Nom("A"), Sim("}"), Ctl("endif"),
        Inv("narrar("), Nom("X"), Sim(")")>>,
      <<Ctl("si"), Nom("X"), Cmp(">"), Num("1"), Ctl("entonces"), Sim("{"), Sim("}"),
        Ctl("endif")>>,
      <<Inv("input("), Nom("X"), Sim(","), Nom("A"), Sim(")")>>,
      <<Inv("input("), Sim(")")>>,
      <<Inv("input("), Nom("X"), Sim(")")>>,
      <<Inv("Comparar("), Nom("X"), Sim(","), Nom("A"), Sim(")")>>,
      ResultadoDelScanner,
      <<Ctl("si"), Nom("X"), Ctl("entonces"), Sim("{"), Decl("Deportista"), Nom("X"),
        Num("1"), Num("2"), Num("3"), Nom("Futbol"), Nom("P"), Ctl("sino"), Sim("{"),
        Decl("Deportista"), Nom("X"), Num("1"), Num("2"), Num("3"), Nom("Futbol"), Nom("P"),
        Inv("narrar("), Nom("X"), Sim(")"), Sim("}"), Sim("}"), Ctl("endif")>>,
      <<Ctl("si"), Inv("narrar("), Nom("X"), Sim(")"), Cmp(">"), Ari("-"), Num("1"),
        Ctl("entonces"), Sim("{"), Inv("input("), Nom("X"), Sim(","), Nom("A"), Sim(")"),
        Sim("}"), Ctl("endif")>>,
      <<Ctl("si"), Nom("X"), Ctl("entonces"), Sim("{"), Decl("Deportista"), Nom("A"),
        Num("1"), Num("2"), Num("3"), Nom("Futbol"), Nom("P"), Sim("}"), Ctl("endif"),
        Inv("input("), Nom("A"), Sim(")")>>,
      <<Ctl("si"), Nom("X"), Ctl("entonces"), Sim("{"), Decl("Deportista"), Nom("A"),
        Num("1"), Num("2"), Num("3"), Nom("Futbol"), Nom("P"), Sim("}"), Ctl("endif"),
        Inv("Comparar("), Nom("A"), Sim(","), Nom("A"), Sim(")")>> }
    \cup LexemasRaros


\* Verifier(asa) for the root parse_from_tokens returns, or for a given tree.
InitVerif ==
    /\ \/ /\ \E l \in Layouts, s \in Programs \cup VerifPrograms : tokens = Layout(l, s)
          /\ stack = <<ProgramFrame>>
          /\ raiz = NoNode
       \/ /\ tokens = <<>>
          /\ stack = <<>>
          /\ raiz \in Trees
    /\ pos = 0
    /\ errors = <<>>
    /\ error_keys = {}
    /\ log = <<>>
    /\ last = NoLast
    /\ SyncIdle
    /\ TableIdle
    /\ VerifIdle

\* The Verifier's fields at the start of a step, and the call on top.
CurV ==
    VS(scopes, vf.errors, vf.decorations, vf.snapshots, vf.error_context_stack, vf.traza)
Tope == Head(vf.pila)
EnCurso(k) == vf.estado = "run" /\ vf.pila # <<>> /\ Tope.k = k

\* What a step leaves: the fields, and the calls still to make; an exception
\* ends the pass where it was raised.
ApplyV(v, pila) ==
    /\ scopes' = v.scopes
    /\ vf' = [estado |-> IF v.excepcion # "" THEN v.excepcion ELSE "run",
              errors |-> v.errors, decorations |-> v.decorations,
              snapshots |-> v.snapshots, error_context_stack |-> v.error_context_stack,
              pila |-> IF v.excepcion # "" THEN <<>> ELSE pila,
              traza |-> v.traza]
    /\ UNCHANGED <<parserVars, syncVars, st>>

\* Verifier.run: self.table = SymbolTable(); self._visit(self.root)
VerifierRun ==
    /\ vf.estado = "idle"
    /\ stack = <<>>
    /\ raiz # NoNode
    /\ scopes' = NewTable
    /\ vf' = [vf EXCEPT !.estado = "run", !.pila = <<Task("visit", raiz, NoNode, 0, 0)>>]
    /\ UNCHANGED <<parserVars, syncVars, st>>

\* one call of _visit, up to the first call it makes on a child
Visit ==
    /\ EnCurso("visit")
    /\ ApplyV(visit(CurV, Tope), siguientes(Tope) \o Tail(vf.pila))

\* _visit_binaryop once both operands were visited
PostBinaryOp ==
    /\ EnCurso("binaryop")
    /\ ApplyV(binaryop_post(CurV, Tope.nodo, Tope.id), Tail(vf.pila))

\* a competition visitor once its children were visited
PostCompetencia ==
    /\ EnCurso("competencia")
    /\ ApplyV(competencia_post(CurV, Tope.nodo, Tope.id), Tail(vf.pila))

\* the end of _visit for a compound node or an ErrorSintactico
Salir ==
    /\ EnCurso("salir")
    /\ ApplyV(salir(CurV, Tope.nodo, Tope.id), Tail(vf.pila))

\* Verifier.run: return self.errors
VerifierReturn ==
    /\ vf.estado = "run"
    /\ vf.pila = <<>>
    /\ vf' = [vf EXCEPT !.estado = "done"]
    /\ UNCHANGED <<parserVars, syncVars, tableVars>>

NextVerif ==
    \/ ParseProgram
    \/ ParseFromTokens
    \/ ParsePartido
    \/ ParseCarrera
    \/ ParseRutina
    \/ ParseCombate
    \/ ParseAccionStub
    \/ ParseCondicional
    \/ ParseRepetir
    \/ ParseRepetirHasta
    \/ VerifierRun
    \/ Visit
    \/ PostBinaryOp
    \/ PostCompetencia
    \/ Salir
    \/ VerifierReturn

SpecVerif == InitVerif /\ [][NextVerif]_vars

(***************************************************************************)
(*   SpecBinaryOp : _visit_binaryop on operands of every inferred type     *)
(***************************************************************************)

Operadores == {"+", "-", "*", "/", "%", "<", ">", "=="}
TiposInferidos ==
    {"int", "string", "unknown", "void", "entity:Deportista", "list:Deportista"}

\* an operand whose kind has no visitor: its type is its decoration
Operando == Node("Operando", "", NoAttrs, <<>>)

\* _visit_binaryop after self._visit(left); self._visit(right), the operands
\* decorated with the types lt and rt
InitBinaryOp ==
    /\ \E op \in Operadores, lt \in TiposInferidos, rt \in TiposInferidos :
         /\ raiz = NBinaryOp(op, <<Operando, Operando>>)
         /\ vf = [NewVerifier EXCEPT
                    !.estado = "run",
                    !.decorations = (1 :> [tipo |-> lt]) @@ (2 :> [tipo |-> rt]),
                    !.pila = <<Task("binaryop", raiz, NoNode, 0, 0)>>]
    /\ tokens = <<>>
    /\ pos = 0
    /\ errors = <<>>
    /\ error_keys = {}
    /\ stack = <<>>
    /\ log = <<>>
    /\ last = NoLast
    /\ SyncIdle
    /\ TableIdle

NextBinaryOp ==
    \/ PostBinaryOp
    \/ VerifierReturn

SpecBinaryOp == InitBinaryOp /\ [][NextBinaryOp]_vars

(***************************************************************************)
(*                               Claims                                    *)
(***************************************************************************)

\* The records of kind ev in the log of the step that led to this state.
LogOf(ev) == {i \in 1..Len(log) : log[i].ev = ev}

\* C1: for every finite token stream the parse terminates and returns a
\* Programa root: no loop of a production iterates forever without consuming
\* a token or exiting.  The parser is deterministic, so it terminates only if
\* no loop iteration leaves its whole state as it was (the cursor, the
\* diagnostics, the locals of the productions in progress, the result): such
\* an iteration repeats forever.  And when no production is left in progress
\* the Programa root has been returned.
C1_ParseTerminates ==
    /\ [][<<pos, errors, error_keys, stack, raiz>>' # <<pos, errors, error_keys, stack, raiz>>]_vars
    /\ [](stack = <<>> => raiz.tipo = "Programa")

\* C2 as the specification words it: every failed expect returns a null
\* token and appends a diagnostic to the error list, and the root returned
\* carries exactly the accumulated list as parser_errors.
C2_FailedExpectAppends ==
    /\ \A i \in LogOf("expect") :
         LET e == log[i]
             t == peek(e.at)
             met == /\ HasTok(e.at)
                    /\ e.tipo = "" \/ t.tipo = e.tipo
                    /\ e.texto = "" \/ Lower(t.texto) = Lower(e.texto)
         IN  ~met => e.ret = NoTok /\ e.b = e.a + 1
    /\ raiz # NoNode => raiz.atributos.parser_errors = errors

\* C2, amended: every failed expect (category mismatch, lexeme mismatch or
\* end of stream) returns a null token and leaves its diagnostic in the error
\* list: the diagnostic is appended unless one with the same message, line
\* and column is already recorded, and then the list is left as it is.  An
\* expect that is met returns the token and reports nothing.  The root
\* returned is a Programa node whose parser_errors is the accumulated list.
C2_FailedExpectReported ==
    /\ \A i \in LogOf("expect") :
         LET e == log[i]
             t == peek(e.at)
             met == /\ HasTok(e.at)
                    /\ e.tipo = "" \/ t.tipo = e.tipo
                    /\ e.texto = "" \/ Lower(t.texto) = Lower(e.texto)
             d == [mensaje |-> e.mensaje, linea |-> LineaDe(t), columna |-> ColumnaDe(t)]
             antes == {j \in 1..e.a : errors[j] = d}
         IN  IF met
             THEN e.ret = t /\ e.b = e.a
             ELSE /\ e.ret = NoTok
                  /\ e.b <= Len(errors)
                  /\ IF antes = {} THEN e.b = e.a + 1 /\ errors[e.b] = d ELSE e.b = e.a
    /\ raiz # NoNode =>
         /\ raiz.tipo = "Programa"
         /\ "parser_errors" \in DOMAIN raiz.atributos
         /\ raiz.atributos.parser_errors = errors

\* C2 witness: a failed expect whose diagnostic was already recorded, and a
\* failed expect at end of stream.
C2_Witness ==
    /\ \E i \in LogOf("expect") : log[i].ret = NoTok /\ log[i].b = log[i].a
    /\ \E i \in LogOf("expect") : log[i].ret = NoTok /\ ~HasTok(log[i].at)

\* C3: the cursor only moves forward: no parser step leaves it below its
\* previous value, and the lookahead after 'Lista Deportista' leaves the
\* cursor where it was when the lookahead began, that is, after 'Deportista'.
C3_CursorForward ==
    /\ [][pos' >= pos]_vars
    /\ [](\A i \in LogOf("lookahead") : log[i].fin = log[i].inicio)

\* The command at cursor p is Lista Deportista <name>.
ListaDeportistaAt(p) ==
    /\ p + 3 <= Len(tokens)
    /\ tokens[p + 1].tipo = "DECLARACION_ENTIDAD" /\ tokens[p + 1].texto = "Lista"
    /\ tokens[p + 2].tipo = "DECLARACION_ENTIDAD" /\ tokens[p + 2].texto = "Deportista"
    /\ tokens[p + 3].tipo = "NOMBRE_IDENTIFICADOR"

\* Three integer literals follow the name.
TresEnteros(p) ==
    /\ p + 6 <= Len(tokens)
    /\ \A k \in 4..6 : tokens[p + k].tipo = "NUMERO_ENTERO"

\* C4: on Lista Deportista X 1 2 3 Sport Country the production returns a
\* CargaDeportistas node with exactly one entry, for X with statistics
\* [1,2,3], sport Sport and country Country, and consumes the eight tokens.
C4_BulkLoad ==
    LET p == last.desde IN
      (/\ last # NoLast
       /\ ListaDeportistaAt(p)
       /\ TresEnteros(p)
       /\ p + 8 <= Len(tokens)
       /\ tokens[p + 7].tipo = "NOMBRE_IDENTIFICADOR"
       /\ tokens[p + 8].tipo = "NOMBRE_IDENTIFICADOR"
       /\ p + 8 < Len(tokens) => tokens[p + 9].tipo # "NOMBRE_IDENTIFICADOR")
      => /\ last.nodo.tipo = "CargaDeportistas"
         /\ last.nodo.atributos.deportistas =
              <<[nombre |-> tokens[p + 3].texto,
                 estadisticas |-> <<tokens[p + 4].texto, tokens[p + 5].texto,
                                    tokens[p + 6].texto>>,
                 deporte |-> tokens[p + 7].texto,
                 pais |-> tokens[p + 8].texto]>>
         /\ last.hasta = p + 8

\* C5: on Lista Deportista X with X not followed by three integer literals
\* the production returns a Lista node with type Deportista and name X,
\* reports nothing, and leaves the cursor just after X.
C5_SimpleList ==
    LET p == last.desde IN
      (last # NoLast /\ ListaDeportistaAt(p) /\ ~TresEnteros(p))
      => /\ last.nodo = [tipo |-> "Lista", contenido |-> tokens[p + 3].texto,
                         atributos |-> [tipo |-> Algun("Deportista"),
                                        nombre |-> Algun(tokens[p + 3].texto),
                                        linea |-> Algun(tokens[p + 1].linea)],
                         hijos |-> <<>>]
         /\ last.e1 = last.e0
         /\ LogOf("report") = {}
         /\ last.hasta = p + 3
         /\ pos = p + 3

\* C5 witness: the production returned on Lista Deportista X followed by
\* fewer than three integers, and on Lista Deportista X at end of stream.
C5_Witness ==
    LET p == last.desde IN
      /\ last # NoLast
      /\ ListaDeportistaAt(p)
      /\ ~TresEnteros(p)
      /\ last.nodo.tipo = "Lista"
      /\ p + 4 <= Len(tokens)
      /\ tokens[p + 4].tipo = "NUMERO_ENTERO"

\* The (message, line, column) of a diagnostic.
Triple(d) == <<d.mensaje, d.linea, d.columna>>

\* C6: the diagnostic list never holds two entries with the same (message,
\* line, column); a report whose triple is already recorded leaves the list
\* unchanged, any other report appends its entry; the list only grows at its
\* end, so the entries stay in order of first occurrence.
C6_Dedup ==
    /\ [](/\ \A i, j \in 1..Len(errors) :
               Triple(errors[i]) = Triple(errors[j]) => i = j
          /\ error_keys = {Triple(errors[i]) : i \in 1..Len(errors)}
          /\ \A i \in LogOf("report") :
               LET e == log[i]
                   antes == {Triple(errors[j]) : j \in 1..e.a}
               IN  /\ e.b <= Len(errors)
                   /\ IF Triple(e) \in antes
                      THEN e.b = e.a
                      ELSE e.b = e.a + 1 /\ Triple(errors[e.b]) = Triple(e))
    /\ [][/\ Len(errors') >= Len(errors)
          /\ SubSeq(errors', 1, Len(errors)) = errors]_vars

\* C6 witness: a report whose triple was already recorded.
C6_Witness ==
    \E i \in LogOf("report") :
        /\ log[i].b = log[i].a
        /\ \E j \in 1..log[i].a : Triple(errors[j]) = Triple(log[i])

\* The levels whose scope holds name.
LevelsWith(s, name) == {i \in 1..Len(s) : name \in DOMAIN s[i]}

\* The number of tokens from the cursor p up to, not including, the first
\* anchor (or up to the end of the stream).
RunLength(p, start_line) ==
    LET stops == {i \in p..Len(tokens) : i = Len(tokens) \/ IsAnchor(tokens[i + 1], start_line)}
    IN  (CHOOSE i \in stops : \A j \in stops : i <= j) - p

\* C7: synchronize skips tokens from the cursor to the first anchor and
\* stops on it without consuming it when fewer than 500 non-anchor tokens
\* precede it; once 500 tokens are skipped without stopping, every remaining
\* token (a later anchor included) is discarded and the cursor ends at end
\* of stream; it never skips 500 tokens or more and leaves a token
\* unconsumed.
C7_SynchronizeBounded ==
    sy.fase = "done" /\ sy.start_pos < Len(tokens) =>
        LET run == RunLength(sy.start_pos, tokens[sy.start_pos + 1].linea) IN
          /\ run < max_steps => pos = sy.start_pos + run
          /\ run >= max_steps => pos = Len(tokens)
          /\ pos - sy.start_pos >= max_steps => pos = Len(tokens)
          /\ pos < Len(tokens) => IsAnchor(tokens[pos + 1], tokens[sy.start_pos + 1].linea)

\* C7 witness: exactly 500 non-anchor tokens were skipped, an anchor came
\* next, and it was discarded with the rest of the stream.
C7_Witness ==
    /\ sy.fase = "done"
    /\ sy.steps = max_steps
    /\ Len(tokens) > sy.start_pos + max_steps
    /\ IsAnchor(tokens[sy.start_pos + max_steps + 1], sy.start_line)
    /\ pos = Len(tokens)

\* C8: declare(name, type, node, line) returns an error if and only if name
\* is already in the innermost scope; then the table is unchanged (the
\* first entry and its type are kept); otherwise it returns no error and
\* adds exactly one entry, for name, to the innermost scope only, whatever
\* the outer scopes hold (shadowing).
C8_DeclareInnermostOnly ==
    [][st'.op = "declare" =>
        LET top == Len(scopes)
            n   == st'.name
        IN  /\ (st'.err # NoErr) <=> (n \in DOMAIN scopes[top])
            /\ st'.err # NoErr => scopes' = scopes
            /\ st'.err = NoErr =>
                 /\ Len(scopes') = top
                 /\ \A i \in 1..(top - 1) : scopes'[i] = scopes[i]
                 /\ DOMAIN scopes'[top] = DOMAIN scopes[top] \cup {n}
                 /\ \A m \in DOMAIN scopes[top] : scopes'[top][m] = scopes[top][m]
                 /\ scopes'[top][n] =
                      SymbolEntry(n, Valor(st'.typ), DeclNode, Algun(DeclLine), top - 1)
    ]_vars

\* C8 witness: a name held by the global scope has just been declared again,
\* without error and with another type, in an inner scope.
C8_Witness ==
    /\ st.op = "declare"
    /\ st.err = NoErr
    /\ Len(scopes) >= 2
    /\ st.name \in DOMAIN scopes[1]
    /\ st.name \in DOMAIN scopes[Len(scopes)]
    /\ scopes[1][st.name].type # scopes[Len(scopes)][st.name].type

\* C9: lookup(name) returns the entry of the innermost scope holding name,
\* none when no scope holds it, and leaves the table as it was.
C9_LookupInnermost ==
    [][st'.op = "lookup" =>
        LET L == LevelsWith(scopes, st'.name) IN
          /\ scopes' = scopes
          /\ L = {} => st'.entry = NoEntry
          /\ L # {} =>
               LET top == CHOOSE i \in L : \A j \in L : j <= i IN
                 /\ st'.entry = scopes[top][st'.name]
                 /\ st'.entry.scope_level = top - 1
    ]_vars

\* C9 witness: a lookup of a name held by two scopes has returned the inner
\* entry.
C9_Witness ==
    /\ st.op = "lookup"
    /\ Cardinality(LevelsWith(scopes, st.name)) >= 2
    /\ st.entry.scope_level >= 1
    /\ st.name \in DOMAIN scopes[1]
    /\ st.entry # scopes[1][st.name]

\* C10: the scope stack always holds at least one scope; exit_scope at
\* level 0 removes nothing, returns 0 and keeps every global declaration;
\* enter_scope returns the previous level plus one; exit_scope at level
\* n > 0 returns n - 1.
C10_GlobalScopeStays ==
    /\ [](Len(scopes) >= 1)
    /\ [][/\ st'.op = "exit_scope" /\ current_level(scopes) = 0 =>
               scopes' = scopes /\ st'.level = 0
          /\ st'.op = "exit_scope" /\ current_level(scopes) > 0 =>
               /\ st'.level = current_level(scopes) - 1
               /\ scopes' = SubSeq(scopes, 1, Len(scopes) - 1)
          /\ st'.op = "enter_scope" =>
               /\ st'.level = current_level(scopes) + 1
               /\ SubSeq(scopes', 1, Len(scopes)) = scopes
               /\ Len(scopes') = Len(scopes) + 1
       ]_vars

\* C10 witness: exit_scope has just been called at level 0 and the global
\* scope still holds a declaration.
C10_Witness ==
    /\ st.op = "exit_scope"
    /\ st.level = 0
    /\ Len(scopes) = 1
    /\ DOMAIN scopes[1] # {}
(***************************************************************************)
(* Claims on the verifier. A node is named by its position in the          *)
(* pre-order of the tree, the root first.                                  *)
(***************************************************************************)

\* The nodes of a tree in pre-order, each with the size of its subtree.
RECURSIVE Aplana(_), AplanaSeq(_)
Aplana(node) ==
    <<[tipo |-> node.tipo, contenido |-> node.contenido, atributos |-> node.atributos,
       tam |-> Tam(node)]>> \o AplanaSeq(node.hijos)
AplanaSeq(hs) == IF hs = <<>> THEN <<>> ELSE Aplana(Head(hs)) \o AplanaSeq(Tail(hs))

\* the node n declares the name x: the pass picks the visitor of a node by
\* its kind in lower case
Declara(n, x) ==
    \/ Lower(n.tipo) = "deportista" /\ Get(n.atributos, "nombre", Algun(n.contenido)) = x
    \/ Lower(n.tipo) = "lista" /\ Truthy(x) /\ Get(n.atributos, "nombre", None) = x

\* the node at position d lies under the node at position c
Dentro(ns, c, d) == c < d /\ d < c + ns[c].tam

\* Before position u the name x is declared, and each of its declarations
\* lies in the body of a Condicional, Repetir or RepetirHasta that does not
\* hold position u.
SoloEnCerrados(ns, x, u) ==
    /\ \E d \in 1..(u - 1) : d <= Len(ns) /\ Declara(ns[d], x)
    /\ \A d \in 1..(u - 1) :
         d <= Len(ns) /\ Declara(ns[d], x) =>
           \E c \in 1..(d - 1) :
             /\ ns[c].tipo \in {"Condicional", "Repetir", "RepetirHasta"}
             /\ Dentro(ns, c, d)
             /\ ~Dentro(ns, c, u)

\* the names the tree declares
Declarados(ns) ==
    {Get(ns[d].atributos, "nombre", Algun(ns[d].contenido)) :
        d \in {e \in 1..Len(ns) : Lower(ns[e].tipo) \in {"deportista", "lista"}}}

\* the trace entries of one kind
Traza(ev) == {i \in 1..Len(vf.traza) : vf.traza[i].ev = ev}

\* after entry j of the trace, the undeclared-identifier diagnostic for the
\* name x at the same node
Denunciado(j, x) ==
    \E m \in (j + 1)..Len(vf.traza) :
      /\ vf.traza[m].ev = "error"
      /\ vf.traza[m].id = vf.traza[j].id
      /\ vf.traza[m].dato = "[SEM] " \o NoDeclaradoMsg(x)

\* the argument a of a call is an identifier: no number, no quoted text
EsNombreUsado(a) ==
    Truthy(a) /\ ~isdigit(Valor(a)) /\ ~ComillaDoble(Valor(a)) /\ ~EntreComillas(Valor(a))
        /\ ~ConEspacio(Valor(a))

\* the identifiers a node refers to: the arguments of narrar, of input and of
\* an invocation (comparar among them), the name of a bare identifier that
\* does not follow a '.'
Ocurrencias(ns, p) ==
    IF Lower(ns[p].tipo) \in {"narrar", "invocacion", "dirigir"}
    THEN SelectSeq(Get(ns[p].atributos, "args", <<>>), EsNombreUsado)
    ELSE IF Lower(ns[p].tipo) = "identificador" /\ (p = 1 \/ ns[p - 1].tipo # "Simbolo")
    THEN <<Algun(ns[p].contenido)>>
    ELSE <<>>

\* at position u a declaration of x has been processed in the scope of u or
\* in a scope around it
Resoluble(ns, x, u) ==
    \E d \in 1..(u - 1) :
      /\ Declara(ns[d], x)
      /\ \A c \in 1..(d - 1) :
           ns[c].tipo \in {"Condicional", "Repetir", "RepetirHasta"} /\ Dentro(ns, c, d)
             => Dentro(ns, c, u)

\* the undeclared-identifier diagnostics for the name x at the node id
Denuncias(id, x) ==
    {m \in Traza("error") :
        vf.traza[m].id = id /\ vf.traza[m].dato = "[SEM] " \o NoDeclaradoMsg(x)}

\* the occurrences of x among the identifiers of a node
Veces(occ, x) == Cardinality({k \in 1..Len(occ) : occ[k] = x})

\* C11: a name declared only inside the body of a Condicional, Repetir or
\* RepetirHasta is not resolvable once the verifier has left that node:
\* when a node outside the construct is about to be visited, lookup of the
\* name returns none, and after the pass each node visited after the
\* construct that uses the name (as an argument of narrar, of input or of an
\* invocation, or as a bare identifier) has an undeclared-identifier
\* diagnostic for it. Nodes under an error node, where the verifier reports
\* nothing by design, are left out.
C11_ScopeExit ==
    /\ EnCurso("visit") =>
          \A x \in Declarados(Aplana(raiz)) :
            SoloEnCerrados(Aplana(raiz), x, Tope.id + 1) => lookup(scopes, x) = NoEntry
    /\ vf.estado = "done" =>
          \A j \in Traza("visit") :
            ~vf.traza[j].enctx =>
              \A k \in 1..Len(Ocurrencias(Aplana(raiz), vf.traza[j].id + 1)) :
                SoloEnCerrados(Aplana(raiz), Ocurrencias(Aplana(raiz), vf.traza[j].id + 1)[k],
                               vf.traza[j].id + 1)
                  => Denuncias(vf.traza[j].id,
                               Ocurrencias(Aplana(raiz), vf.traza[j].id + 1)[k]) # {}

\* C12: after a pass, each node visited outside an error context has, for
\* each identifier it refers to, one undeclared-identifier diagnostic per
\* occurrence when no declaration of the name was processed earlier in the
\* current or an enclosing scope, and none when the name is resolvable.
C12_DeclareBeforeUse ==
    vf.estado = "done" =>
      \A j \in Traza("visit") :
        ~vf.traza[j].enctx =>
          \A x \in {Ocurrencias(Aplana(raiz), vf.traza[j].id + 1)[k] :
                      k \in 1..Len(Ocurrencias(Aplana(raiz), vf.traza[j].id + 1))} :
            Cardinality(Denuncias(vf.traza[j].id, x)) =
              IF Resoluble(Aplana(raiz), x, vf.traza[j].id + 1) THEN 0
              ELSE Veces(Ocurrencias(Aplana(raiz), vf.traza[j].id + 1), x)

\* the nodes at d1 and d2 lie in the same scope: the same constructs hold both
MismoAmbito(ns, d1, d2) ==
    \A c \in 1..Len(ns) :
      ns[c].tipo \in {"Condicional", "Repetir", "RepetirHasta"} =>
        (Dentro(ns, c, d1) <=> Dentro(ns, c, d2))

\* the declaration of x at d repeats an earlier one of the same scope
Repetida(ns, x, d) ==
    \E e \in 1..(d - 1) : Declara(ns[e], x) /\ MismoAmbito(ns, e, d)

\* the declaration of x at d has an earlier one in a scope around its own
Anidada(ns, x, d) ==
    \E e \in 1..(d - 1) :
      /\ Declara(ns[e], x)
      /\ \E c \in (e + 1)..(d - 1) :
           ns[c].tipo \in {"Condicional", "Repetir", "RepetirHasta"} /\ Dentro(ns, c, d)

\* the diagnostics logged at the node id
ErroresEn(id) == {m \in Traza("error") : vf.traza[m].id = id}

\* C13: a declaration (Deportista or Lista) of a name already declared in
\* the same scope gets exactly one duplicate-declaration diagnostic, a
\* declaration that repeats none of its scope (a first one, or one in a
\* nested scope of a name declared outside) gets none, and every entry of
\* the table is the one made by the first declaration of its name in its
\* scope.
C13_DuplicateDeclaration ==
    /\ \A j \in Traza("declare") :
         IF Repetida(Aplana(raiz), vf.traza[j].nombre, vf.traza[j].id + 1)
         THEN /\ Cardinality(ErroresEn(vf.traza[j].id)) = 1
              /\ \A m \in ErroresEn(vf.traza[j].id) :
                   /\ m > j
                   /\ vf.traza[m].dato =
                        "[SEM] " \o DuplicateMsg(vf.traza[j].nombre, vf.traza[j].nivel)
         ELSE ErroresEn(vf.traza[j].id) = {}
    /\ vf.estado \in {"run", "done"} =>
         \A lvl \in 1..Len(scopes) : \A x \in DOMAIN scopes[lvl] :
           /\ Declara(Aplana(raiz)[scopes[lvl][x].defined_node + 1], x)
           /\ ~Repetida(Aplana(raiz), x, scopes[lvl][x].defined_node + 1)
           /\ scopes[lvl][x].scope_level = lvl - 1

\* a pass that met a Deportista repeating a Lista of its scope and a
\* declaration in a nested scope of a name declared outside
C13_Witness ==
    /\ vf.estado = "done"
    /\ \E j \in Traza("declare") :
         /\ vf.traza[j].tipo = "Deportista"
         /\ Repetida(Aplana(raiz), vf.traza[j].nombre, vf.traza[j].id + 1)
         /\ Cardinality(ErroresEn(vf.traza[j].id)) = 1
         /\ lookup(scopes, vf.traza[j].nombre).type # "entity:Deportista"
    /\ \E j \in Traza("declare") :
         /\ Anidada(Aplana(raiz), vf.traza[j].nombre, vf.traza[j].id + 1)
         /\ ~Repetida(Aplana(raiz), vf.traza[j].nombre, vf.traza[j].id + 1)
         /\ ErroresEn(vf.traza[j].id) = {}

\* the messages of the diagnostics of the verifier
Mensajes == [i \in 1..Len(vf.errors) |-> vf.errors[i].message]

\* C14: once _visit_binaryop has decorated a BinaryOp whose operands have the
\* types lt and rt: for '+' on a string and an int, in either order, there
\* is exactly one diagnostic, 'No se puede sumar texto con número', and the
\* type is unknown; the type is int exactly for two ints under + - * / %,
\* string exactly for '+' on two strings, and in every other combination it
\* is unknown and there is no diagnostic.
C14_BinaryOpTypes ==
    (vf.estado = "done" /\ raiz.tipo = "BinaryOp" /\ 0 \in DOMAIN vf.decorations) =>
      IF raiz.contenido = "+"
           /\ {vf.decorations[1].tipo, vf.decorations[2].tipo} = {"string", "int"}
      THEN /\ Mensajes = <<"[SEM] No se puede sumar texto con número">>
           /\ vf.decorations[0].tipo = "unknown"
      ELSE /\ Mensajes = <<>>
           /\ vf.decorations[0].tipo =
                IF /\ vf.decorations[1].tipo = "int"
                   /\ vf.decorations[2].tipo = "int"
                   /\ raiz.contenido \in {"+", "-", "*", "/", "%"}
                THEN "int"
                ELSE IF /\ vf.decorations[1].tipo = "string"
                        /\ vf.decorations[2].tipo = "string"
                        /\ raiz.contenido = "+"
                THEN "string"
                ELSE "unknown"

\* '+' on an int and a string, in this order, was decorated and reported
C14_Witness ==
    /\ vf.estado = "done"
    /\ raiz.tipo = "BinaryOp"
    /\ raiz.contenido = "+"
    /\ vf.decorations[1].tipo = "int"
    /\ vf.decorations[2].tipo = "string"
    /\ vf.decorations[0].tipo = "unknown"
    /\ Len(vf.errors) = 1

\* the token stream as pairs of category and lexeme
Lexemas == [i \in 1..Len(tokens) |-> <<tokens[i].tipo, tokens[i].texto>>]

\* Deportista A 1 2 3 Futbol P  narrar(A)
DeclaraYNarra ==
    <<Decl("Deportista"), Nom("A"), Num("1"), Num("2"), Num("3"), Nom("Futbol"), Nom("P"),
      Inv("narrar("), Nom("A"), Sim(")")>>

\* narrar(X)  Deportista X 1 2 3 Futbol P
NarraYDeclara ==
    <<Inv("narrar("), Nom("X"), Sim(")"), Decl("Deportista"), Nom("X"), Num("1"), Num("2"),
      Num("3"), Nom("Futbol"), Nom("P")>>

\* the positions of the nodes of a kind in the tree parsed
NodosDe(tipo) == {p \in 1..Len(Aplana(raiz)) : Aplana(raiz)[p].tipo = tipo}

\* C15: parsing and verifying 'Deportista A 1 2 3 Futbol P narrar(A)' leaves
\* no syntax diagnostic and no semantic diagnostic, one Deportista node with
\* content A and statistics 1 2 3 decorated with the type entity:Deportista,
\* and one Narrar node whose one argument has the type entity:Deportista.
C15_DeclareThenNarrate ==
    (Lexemas = DeclaraYNarra /\ vf.estado = "done") =>
      /\ errors = <<>>
      /\ raiz.atributos.parser_errors = <<>>
      /\ vf.errors = <<>>
      /\ Cardinality(NodosDe("Deportista")) = 1
      /\ \A p \in NodosDe("Deportista") :
           /\ Aplana(raiz)[p].contenido = "A"
           /\ Aplana(raiz)[p].atributos.estadisticas = Textos(<<"1", "2", "3">>)
           /\ vf.decorations[p - 1].tipo = "entity:Deportista"
      /\ Cardinality(NodosDe("Narrar")) = 1
      /\ \A p \in NodosDe("Narrar") :
           /\ Aplana(raiz)[p].atributos.args = Textos(<<"A">>)
           /\ vf.decorations[p - 1].args_types = <<"entity:Deportista">>

\* the program was parsed and verified to the end
C15_Witness ==
    /\ Lexemas = DeclaraYNarra
    /\ vf.estado = "done"
    /\ Len(raiz.hijos) = 2
    /\ Len(vf.snapshots) = 1

\* C16: parsing and verifying 'narrar(X) Deportista X 1 2 3 Futbol P' leaves
\* no syntax diagnostic and exactly one semantic diagnostic, the undeclared
\* identifier X, reported at the Narrar node, and X declared in the global
\* scope at the end of the pass.
C16_OrderSensitive ==
    (Lexemas = NarraYDeclara /\ vf.estado = "done") =>
      /\ errors = <<>>
      /\ raiz.atributos.parser_errors = <<>>
      /\ Mensajes = <<"[SEM] " \o NoDeclaradoMsg(Algun("X"))>>
      /\ \A m \in Traza("error") : vf.traza[m].tipo = "Narrar"
      /\ Len(scopes) = 1
      /\ Algun("X") \in DOMAIN scopes[1]
      /\ scopes[1][Algun("X")].type = "entity:Deportista"
      /\ scopes[1][Algun("X")].scope_level = 0

\* the use of X was met before its declaration, and both were processed
C16_Witness ==
    /\ Lexemas = NarraYDeclara
    /\ vf.estado = "done"
    /\ \E j \in Traza("uso"), d \in Traza("declare") :
         j < d /\ vf.traza[j].nombre = Algun("X") /\ vf.traza[d].nombre = Algun("X")

\* si X { A } endif  narrar(X) : a conditional without 'entonces', then a command
SinEntoncesYNarra ==
    <<Ctl("si"), Nom("X"), Sim("{"), Nom("A"), Sim("}"), Ctl("endif"),
      Inv("narrar("), Nom("X"), Sim(")")>>

\* C17: once 'si X { A } endif narrar(X)' is parsed, the root holds a
\* Condicional node, the parser has recorded exactly one diagnostic, which
\* cites the missing 'entonces', and the command after the conditional is
\* parsed as without the defect: one Narrar node with the argument X.
C17_MissingEntonces ==
    (Lexemas = SinEntoncesYNarra /\ stack = <<>> /\ raiz # NoNode) =>
      /\ Len(raiz.hijos) = 2
      /\ raiz.hijos[1].tipo = "Condicional"
      /\ Len(errors) = 1
      /\ \A i \in 1..Len(errors) :
           errors[i].mensaje =
             "Falta 'entonces' en condicional: se esperaba tipo ESTRUCTURA_CONTROL_FLUJO y llegó SIMBOLO_PUNTUACION ('{')"
      /\ raiz.hijos[2].tipo = "Narrar"
      /\ raiz.hijos[2].atributos.args = Textos(<<"X">>)

\* the comparar invocations decorated so far, by position in the tree
Comparaciones ==
    {vf.traza[j].id + 1 : j \in {i \in Traza("decorate") : vf.traza[i].tipo = "Invocacion"}}
        \cap {p \in 1..Len(Aplana(raiz)) : Lower(Aplana(raiz)[p].contenido) = "comparar"}

\* the diagnostics with the message msg logged at the node id
ErroresCon(id, msg) == {m \in ErroresEn(id) : vf.traza[m].dato = "[SEM] " \o msg}

\* the arguments of the list ts that are no entity
NoEntidades(ts) == {i \in 1..Len(ts) : ~EsEntidad(ts[i])}

\* C18: a comparar invocation has an arity diagnostic exactly when its
\* arguments are not 2, one 'debe ser una entidad' diagnostic for each
\* argument whose resolved type does not start with entity (numbers, quoted
\* text, lists, undeclared names) and none for the others, no other
\* diagnostic, and the decoration of the node has the return type int and
\* the resolved types of the arguments.
C18_Comparar ==
    \A p \in Comparaciones :
      /\ vf.decorations[p - 1].tipo = "int"
      /\ vf.decorations[p - 1].args = Aplana(raiz)[p].atributos.args
      /\ Len(vf.decorations[p - 1].arg_types) = Len(vf.decorations[p - 1].args)
      /\ \A i \in 1..Len(vf.decorations[p - 1].args) :
           /\ (EsTexto(vf.decorations[p - 1].args[i])
                 /\ EntreComillas(Valor(vf.decorations[p - 1].args[i])))
                => vf.decorations[p - 1].arg_types[i] = "string"
           /\ (EsTexto(vf.decorations[p - 1].args[i])
                 /\ isdigit(Valor(vf.decorations[p - 1].args[i])))
                => vf.decorations[p - 1].arg_types[i] = "int"
           /\ (EsNombreUsado(vf.decorations[p - 1].args[i])
                 /\ ~Resoluble(Aplana(raiz), vf.decorations[p - 1].args[i], p))
                => vf.decorations[p - 1].arg_types[i] = "unknown"
           /\ Cardinality(ErroresCon(p - 1, EntidadMsg(i, vf.decorations[p - 1].arg_types[i])))
                = IF EsEntidad(vf.decorations[p - 1].arg_types[i]) THEN 0 ELSE 1
      /\ Cardinality(ErroresCon(p - 1, AridadMsg(Aplana(raiz)[p].contenido, 2,
                                                 Len(vf.decorations[p - 1].args))))
           = IF Len(vf.decorations[p - 1].args) # 2 THEN 1 ELSE 0
      /\ Cardinality(ErroresEn(p - 1))
           = Cardinality(NoEntidades(vf.decorations[p - 1].arg_types))
               + IF Len(vf.decorations[p - 1].args) # 2 THEN 1 ELSE 0

\* a comparar of three arguments, the first an entity, the others a number
\* and a quoted text, was verified: one arity and two entity diagnostics
C18_Witness ==
    /\ vf.estado = "done"
    /\ \E p \in Comparaciones :
         /\ Len(vf.decorations[p - 1].args) = 3
         /\ EsEntidad(vf.decorations[p - 1].arg_types[1])
         /\ vf.decorations[p - 1].arg_types[2] = "int"
         /\ vf.decorations[p - 1].arg_types[3] = "string"
         /\ Cardinality(ErroresEn(p - 1)) = 3

\* the input commands decorated so far, by position in the tree
Entradas ==
    {vf.traza[j].id + 1 :
        j \in {i \in Traza("decorate") : vf.traza[i].tipo \in {"Dirigir", "Invocacion"}}}
        \cap {p \in 1..Len(Aplana(raiz)) : Lower(Aplana(raiz)[p].contenido) = "input"}

\* C19: an input command whose arguments are not exactly one has one arity
\* diagnostic, an input command of one argument has none, and an input
\* command has no other diagnostic.
C19_InputArity ==
    \A p \in Entradas :
      /\ Cardinality(ErroresCon(p - 1, AridadMsg(Aplana(raiz)[p].contenido, 1,
                                  Len(Get(Aplana(raiz)[p].atributos, "args", <<>>)))))
           = IF Len(Get(Aplana(raiz)[p].atributos, "args", <<>>)) # 1 THEN 1 ELSE 0
      /\ Cardinality(ErroresEn(p - 1))
           = IF Len(Get(Aplana(raiz)[p].atributos, "args", <<>>)) # 1 THEN 1 ELSE 0

\* the Resultado nodes decorated so far, by position in the tree
Resultados ==
    {vf.traza[j].id + 1 : j \in {i \in Traza("decorate") : vf.traza[i].tipo = "Resultado"}}

\* the diagnostics _visit_resultado logged at the node id: the ones before
\* the decoration of the node (a competition adds its own afterwards)
ErroresPropios(id) ==
    {m \in ErroresEn(id) :
        \E d \in Traza("decorate") : vf.traza[d].id = id /\ m < d}

\* the values of the Resultado node at p
Valores(p) == Get(Aplana(raiz)[p].atributos, "valores", <<>>)

\* the slot i of a list of values is absent
Falta(vals, i) == i > Len(vals) \/ vals[i] = None

\* 1 if b, else 0
Uno(b) == IF b THEN 1 ELSE 0

\* C20: every Resultado node has one 'falta primer número' diagnostic
\* exactly when its first value is absent, one 'falta segundo número'
\* exactly when its second is absent (both when both are absent), no other
\* diagnostic of its own, is decorated complete exactly when both values
\* are present, and has no diagnostic when both are present.
C20_ResultadoSlots ==
    \A p \in Resultados :
      /\ Cardinality(ErroresCon(p - 1, "Resultado incompleto: falta primer número"))
           = Uno(Falta(Valores(p), 1))
      /\ Cardinality(ErroresCon(p - 1, "Resultado incompleto: falta segundo número"))
           = Uno(Falta(Valores(p), 2))
      /\ Cardinality(ErroresPropios(p - 1))
           = Uno(Falta(Valores(p), 1)) + Uno(Falta(Valores(p), 2))
      /\ vf.decorations[p - 1].completo
           <=> (~Falta(Valores(p), 1) /\ ~Falta(Valores(p), 2))
      /\ (~Falta(Valores(p), 1) /\ ~Falta(Valores(p), 2)) => ErroresPropios(p - 1) = {}

\* a Resultado with both slots None was verified: two diagnostics, the
\* first number before the second, and not complete
C20_Witness ==
    \E p \in Resultados :
      /\ Valores(p) = <<None, None>>
      /\ ~vf.decorations[p - 1].completo
      /\ \E m \in ErroresCon(p - 1, "Resultado incompleto: falta primer número"),
            n \in ErroresCon(p - 1, "Resultado incompleto: falta segundo número") : m < n

\* the competitions decorated so far, by position in the tree
Competidas ==
    {vf.traza[j].id + 1 :
        j \in {i \in Traza("decorate") :
                  vf.traza[i].tipo \in {"Partido", "Carrera", "Rutina", "Combate"}}}

\* the positions of the children of the node at p
HijosDe(ns, p) ==
    {h \in (p + 1)..(p + ns[p].tam - 1) :
        \A c \in (p + 1)..(h - 1) : ~Dentro(ns, c, h)}

\* the Resultado children of the node at p
ResultadosDe(ns, p) == {h \in HijosDe(ns, p) : ns[h].tipo = "Resultado"}

\* the competition at p lacks what it requires: exactly one Resultado child,
\* both its values, and for a Partido both countries
Defectuosa(ns, p) ==
    \/ Cardinality(ResultadosDe(ns, p)) # 1
    \/ \E h \in ResultadosDe(ns, p) :
         \/ Falta(Get(ns[h].atributos, "valores", <<>>), 1)
         \/ Falta(Get(ns[h].atributos, "valores", <<>>), 2)
    \/ /\ ns[p].tipo = "Partido"
       /\ \/ ~Truthy(Get(ns[p].atributos, "paisA", None))
          \/ ~Truthy(Get(ns[p].atributos, "paisB", None))

\* the diagnostics of the competition at p: the ones that name its kind,
\* logged at the node or at one of its children
DeCompetencia(ns, p) ==
    {m \in Traza("error") :
        /\ vf.traza[m].id + 1 \in {p} \cup HijosDe(ns, p)
        /\ vf.traza[m].dato \in {"[SEM] " \o CierreMsg(ns[p].tipo),
                                  "[SEM] Partido requiere ambos países"}}

\* C21: after a pass, every Partido, Carrera, Rutina or Combate that has no
\* Resultado child, or a Resultado child missing a value, or (a Partido) a
\* missing country, has a diagnostic of its own, one that names the
\* competition and is not the diagnostic of a free-standing Resultado.
C21_CompetenciaCompleta ==
    vf.estado = "done" =>
      \A p \in Competidas :
        Defectuosa(Aplana(raiz), p) => DeCompetencia(Aplana(raiz), p) # {}

\* C22: a verification pass leaves the tree as the parser returned it (and
\* the parser's own state with it): each step of the pass changes only the
\* decorations, the diagnostics of the verifier and the symbol table; a
\* decoration once written stays as written, and no node is decorated
\* twice in a pass.
C22_TreeUnchanged ==
    /\ [][vf'.estado # "idle" =>
            /\ raiz' = raiz
            /\ UNCHANGED <<tokens, pos, errors, error_keys, stack>>
            /\ \A id \in DOMAIN vf.decorations :
                 id \in DOMAIN vf'.decorations /\ vf'.decorations[id] = vf.decorations[id]
         ]_vars
    /\ [](\A i \in Traza("decorate"), j \in Traza("decorate") :
            vf.traza[i].id = vf.traza[j].id => i = j)
    /\ [](DOMAIN vf.decorations = {vf.traza[j].id : j \in Traza("decorate")})

\* a pass over a BinaryOp and its operands has ended, each decorated
C22_Witness ==
    /\ vf.estado = "done"
    /\ \E i \in Traza("decorate"), j \in Traza("decorate") :
         /\ vf.traza[i].tipo = "BinaryOp"
         /\ vf.traza[j].tipo = "Numero"
         /\ j < i
    /\ raiz.hijos # <<>>

\* C23: when parse_partido already holds an Empate node and meets another
\* empate marker (before the Resultado or after it), the step records the
\* diagnostic 'Empate duplicado en Partido' for the marker, consumes it,
\* keeps the first Empate node and stays in the Partido, so that the
\* Resultado and the closing finact are parsed next.
C23_DuplicateEmpate ==
    [][(/\ InProc("partido")
        /\ Top.empate # NoNode
        /\ HasTok(pos)
        /\ peek(pos).tipo = "CONDICION_EMPATE"
        /\ Lower(peek(pos).texto) = "empate") =>
          /\ pos' = pos + 1
          /\ Len(stack') = Len(stack)
          /\ stack'[Len(stack')].empate = Top.empate
          /\ \E i \in 1..Len(errors') :
               errors'[i] = Diag("Empate duplicado en Partido", peek(pos))
      ]_vars

\* the Condicional, Repetir and RepetirHasta nodes on the path from the root
\* to the node at p, the node included
Profundidad(ns, p) ==
    Cardinality({c \in 1..p :
                   /\ ns[c].tipo \in {"Condicional", "Repetir", "RepetirHasta"}
                   /\ (c = p \/ Dentro(ns, c, p))})

\* the exits logged for the construct entered at entry i of the trace
SalidasDe(i) ==
    {j \in Traza("exit_scope") : vf.traza[j].id = vf.traza[i].id}

\* C24: when a node is visited the depth of the symbol table is the number
\* of Condicional, Repetir and RepetirHasta nodes from the root to the node,
\* itself included; a scope entered is left at most once, later, and exactly
\* once when the pass has ended; then only the global scope remains, and
\* it holds exactly the names declared at depth 0.
C24_ScopeDepth ==
    /\ \A j \in Traza("visit") :
         vf.traza[j].nivel = Profundidad(Aplana(raiz), vf.traza[j].id + 1)
    /\ \A i \in Traza("enter_scope") :
         /\ Cardinality(SalidasDe(i)) <= 1
         /\ \A j \in SalidasDe(i) : j > i /\ vf.traza[j].nivel = vf.traza[i].nivel - 1
         /\ vf.estado = "done" => Cardinality(SalidasDe(i)) = 1
    /\ \A j \in Traza("exit_scope") :
         \E i \in Traza("enter_scope") : vf.traza[i].id = vf.traza[j].id
    /\ vf.estado = "done" =>
         /\ Len(scopes) = 1
         /\ DOMAIN scopes[1] =
              {vf.traza[j].nombre :
                 j \in {d \in Traza("declare") :
                          Profundidad(Aplana(raiz), vf.traza[d].id + 1) = 0}}

\* a pass has ended that visited a node two constructs deep, declared a
\* name inside a construct and another at depth 0
C24_Witness ==
    /\ vf.estado = "done"
    /\ \E j \in Traza("visit") : vf.traza[j].nivel = 2
    /\ \E d \in Traza("declare") : vf.traza[d].nivel >= 1
    /\ DOMAIN scopes[1] # {}
    /\ Cardinality(Traza("exit_scope")) >= 2

\* the positions m of the identifiers that follow the pattern  obj . m :
\* the two siblings before m are a '.' and, before it, an Identificador
TrasObjeto(ns) ==
    {m \in 3..Len(ns) :
        /\ ns[m].tipo = "Identificador"
        /\ ns[m - 1].tipo = "Simbolo" /\ ns[m - 1].contenido = "."
        /\ ns[m - 2].tipo = "Identificador"
        /\ \E q \in 1..(m - 3) : {m - 2, m - 1, m} \subseteq HijosDe(ns, q)}

\* the lookups logged at the node id
UsosEn(id) == {u \in Traza("uso") : vf.traza[u].id = id}

\* C25: after a pass, an identifier m in the pattern obj . m is decorated as
\* a method exactly when obj resolved to a list type; when obj is undeclared
\* or resolved to another type, m is resolved like any identifier and, if
\* no declaration of m is in scope, gets the undeclared-identifier
\* diagnostic, whatever its name.
C25_MethodOnlyOnList ==
    vf.estado = "done" =>
      \A m \in TrasObjeto(Aplana(raiz)) : \A u \in UsosEn(m - 3) :
        (m - 1) \in DOMAIN vf.decorations =>
          /\ ("is_method" \in DOMAIN vf.decorations[m - 1]) <=> EsLista(vf.traza[u].dato)
          /\ (~EsLista(vf.traza[u].dato)
                /\ ~vf.traza[u].enctx
                /\ ~Resoluble(Aplana(raiz), Algun(Aplana(raiz)[m].contenido), m))
               => Denuncias(m - 1, Algun(Aplana(raiz)[m].contenido)) # {}

\* C26: once 'Resultado 1 - 2', with the categories the scanner gives its
\* tokens, is parsed, the tree holds one Resultado node with the values
\* 1 and 2, the four tokens are consumed and no diagnostic is recorded.
C26_ResultadoBienFormado ==
    (Lexemas = ResultadoDelScanner /\ stack = <<>> /\ raiz # NoNode) =>
      /\ Len(raiz.hijos) = 1
      /\ raiz.hijos[1].tipo = "Resultado"
      /\ raiz.hijos[1].atributos.valores = Textos(<<"1", "2">>)
      /\ pos = 4
      /\ errors = <<>>

\* the Sino nodes of the tree, each with the Condicional it is a child of
Sinos(ns) ==
    {<<c, q>> \in (1..Len(ns)) \X (1..Len(ns)) :
        ns[c].tipo = "Condicional" /\ ns[q].tipo = "Sino" /\ q \in HijosDe(ns, c)}

\* the trace entries of a kind logged at the node at position p
TrazaEn(ev, p) == {j \in Traza(ev) : vf.traza[j].id = p - 1}

\* C27: the body of a Condicional and its Sino child are verified in one
\* scope: the Sino is visited at the depth of the body, no scope is entered
\* for it, a command of the Sino that uses a name declared in the body
\* resolves it, and a command of the Sino that declares a name declared in
\* the body gets the duplicate-declaration diagnostic, once.
C27_SinoSharesScope ==
    \A cq \in Sinos(Aplana(raiz)) :
      /\ TrazaEn("enter_scope", cq[2]) = {}
      /\ \A j \in TrazaEn("visit", cq[2]) : \A i \in TrazaEn("visit", cq[1]) :
           vf.traza[j].nivel = vf.traza[i].nivel
      /\ \A h \in HijosDe(Aplana(raiz), cq[2]) :
           /\ \A u \in TrazaEn("uso", h) :
                (\E e \in HijosDe(Aplana(raiz), cq[1]) :
                    e < cq[2] /\ Declara(Aplana(raiz)[e], vf.traza[u].nombre))
                  => vf.traza[u].dato # "unknown" /\ ErroresEn(h - 1) = {}
           /\ \A d \in TrazaEn("declare", h) :
                (\E e \in HijosDe(Aplana(raiz), cq[1]) :
                    e < cq[2] /\ Declara(Aplana(raiz)[e], vf.traza[d].nombre))
                  => /\ vf.traza[d].dato # ""
                     /\ Cardinality(ErroresEn(h - 1)) = 1
                     /\ \A m \in ErroresEn(h - 1) :
                          vf.traza[m].dato = "[SEM] " \o vf.traza[d].dato

\* a pass over a parsed conditional whose body and Sino declare the same
\* athlete, the Sino using it afterwards, has ended
C27_Witness ==
    /\ vf.estado = "done"
    /\ tokens # <<>>
    /\ \E cq \in Sinos(Aplana(raiz)) :
         \E h \in HijosDe(Aplana(raiz), cq[2]), k \in HijosDe(Aplana(raiz), cq[2]) :
           /\ \E d \in TrazaEn("declare", h) : vf.traza[d].dato # ""
           /\ \E u \in TrazaEn("uso", k) : vf.traza[u].dato = "entity:Deportista"
    /\ Len(vf.errors) = 1

\* the kinds of node built by the expression productions alone
DeExpresion ==
    {"BinaryOp", "UnaryOp", "Numero", "Nombre", "Condicion", "Op", "PrimaryUnknown"}

\* the labels a condition's top node can have on the token stream
Etiquetas == {""} \cup {InvName(tokens[i], "invocacion") : i \in 1..Len(tokens)}

\* C28: the tree returned by the parser holds no node of a condition
\* expression: no node built by the expression productions is reachable from
\* the root, an Invocacion node is never one whose name parse_comando sends to
\* parse_narrar or parse_dirigir, a Condicional keeps of its condition only the
\* label of the top node, as a string, and the verifier visits no node of an
\* expression kind.
C28_NoConditionNodes ==
    (tokens # <<>> /\ raiz # NoNode) =>
      /\ \A p \in 1..Len(Aplana(raiz)) :
            /\ Aplana(raiz)[p].tipo \notin DeExpresion
            /\ Aplana(raiz)[p].tipo = "Invocacion" =>
                  Lower(Aplana(raiz)[p].contenido) \notin {"narrar", "input"}
            /\ Aplana(raiz)[p].tipo = "Condicional" =>
                  /\ DOMAIN Aplana(raiz)[p].atributos = {"condicion", "linea"}
                  /\ Aplana(raiz)[p].atributos.condicion \in Etiquetas
            /\ Aplana(raiz)[p].tipo = "RepetirHasta" =>
                  Aplana(raiz)[p].contenido \in Etiquetas
      /\ \A j \in Traza("visit") :
            /\ vf.traza[j].tipo \notin DeExpresion
            /\ vf.traza[j].tipo = Aplana(raiz)[vf.traza[j].id + 1].tipo

\* a verified program whose condition holds an invocation, a comparison and a
\* unary minus, and whose Condicional has its one body command as only child
C28_Witness ==
    /\ vf.estado = "done"
    /\ errors = <<>>
    /\ \E i \in 1..(Len(tokens) - 1) :
          /\ tokens[i].texto = "si"
          /\ tokens[i + 1].tipo = "INVOCACION_FUNCION"
    /\ \E k \in 1..Len(tokens) : tokens[k].tipo = "OPERADOR_ARITMETICO"
    /\ \E p \in NodosDe("Condicional") :
          /\ Aplana(raiz)[p].atributos.condicion = ">"
          /\ Aplana(raiz)[p].tam = 2
          /\ Aplana(raiz)[p + 1].tipo = "Dirigir"
          /\ TrazaEn("visit", p + 1) # {}

\* the types the leaf and invocation visitors assign
TipoDeHoja(t) ==
    \/ t \in {"int", "void", "unknown", "unknown_call", "input"}
    \/ EsEntidad(t)
    \/ EsLista(t)

\* the decorated nodes of the kinds of leaf and invocation
HojasDecoradas ==
    {p \in 1..Len(Aplana(raiz)) :
       /\ Aplana(raiz)[p].tipo \in {"Numero", "Nombre", "Narrar", "Dirigir", "Invocacion"}
       /\ (p - 1) \in DOMAIN vf.decorations}

\* C29: in a verification pass no decoration has the type string: a leaf or
\* an invocation is typed int, void, unknown, unknown_call, input or with the
\* type of a symbol, no BinaryOp has an operand of type string or the result
\* string, and the diagnostic 'No se puede sumar texto con número' is in no
\* error list and on no step of the pass.
C29_NoStringType ==
    /\ \A id \in DOMAIN vf.decorations :
          /\ "tipo" \in DOMAIN vf.decorations[id] => vf.decorations[id].tipo # "string"
          /\ "left" \in DOMAIN vf.decorations[id] =>
                /\ vf.decorations[id].left # "string"
                /\ vf.decorations[id].right # "string"
    /\ \A p \in HojasDecoradas : TipoDeHoja(vf.decorations[p - 1].tipo)
    /\ \A i \in 1..Len(vf.errors) :
          vf.errors[i].message # "[SEM] No se puede sumar texto con número"
    /\ \A j \in Traza("error") :
          vf.traza[j].dato # "[SEM] No se puede sumar texto con número"

\* a pass that decorated a '+' of a quoted text and a number: the text is a
\* name, typed unknown, and so is the sum
C29_Witness ==
    /\ vf.estado = "done"
    /\ \E p \in NodosDe("BinaryOp") :
          /\ Aplana(raiz)[p].contenido = "+"
          /\ EntreComillas(Aplana(raiz)[p + 1].contenido)
          /\ Aplana(raiz)[p + 2].tipo = "Numero"
          /\ (p - 1) \in DOMAIN vf.decorations
          /\ vf.decorations[p - 1].left = "unknown"
          /\ vf.decorations[p - 1].right = "int"
          /\ vf.decorations[p - 1].tipo = "unknown"
    /\ \E q \in NodosDe("Narrar") :
          /\ (q - 1) \in DOMAIN vf.decorations
          /\ \E k \in 1..Len(vf.decorations[q - 1].args_types) :
                vf.decorations[q - 1].args_types[k] = "string"

\* parse_comando called with the cursor at p and the diagnostics recorded so far
ComandoEn(p) == parse_comando(PS(p, errors, error_keys, <<>>))

\* C30: a call of parse_comando with a token remaining does not return None
\* and, up to its return or to the loop of the production it enters, has
\* moved the cursor forward; every call that returned gave a node and left
\* the cursor beyond where it was entered; every production in progress was
\* entered before the cursor; parse_program leaves its loop only with the
\* stream exhausted, and once the root is returned the cursor is the number
\* of tokens.
C30_ComandoAvanza ==
    /\ [](/\ \A p \in 0..(Len(tokens) - 1) :
               /\ ComandoEn(p).kind \in {"node", "call"}
               /\ ComandoEn(p).kind = "node" => ComandoEn(p).nodo # NoNode
               /\ ComandoEn(p).ps.pos > p
          /\ last # NoLast =>
               /\ last.nodo # NoNode
               /\ last.desde < Len(tokens)
               /\ last.hasta > last.desde
               /\ last.hasta = pos
          /\ \A k \in 2..Len(stack) : stack[k].desde < pos
          /\ pos <= Len(tokens)
          /\ (stack = <<>> /\ raiz # NoNode) => pos = Len(tokens))
    /\ [][(stack # <<>> /\ stack' = <<>>) =>
            (~HasTok(pos) /\ pos' = Len(tokens) /\ raiz'.tipo = "Programa")]_vars

\* a production that consumed its first token, failed an expect on the next
\* one and recovered without consuming: the call returned a node one token
\* further, with a diagnostic, and tokens remain
C30_Witness ==
    /\ last # NoLast
    /\ last.hasta = last.desde + 1
    /\ last.e1 > last.e0
    /\ last.nodo.tipo \notin {"Unknown", "Programa"}
    /\ HasTok(pos)
    /\ peek(pos).tipo \in {"DECLARACION_ENTIDAD", "ESTRUCTURA_CONTROL_FLUJO", "PALABRA_CLAVE"}

====
